---------------------------- MODULE Spec2Model ----------------------------
(***************************************************************************)
(* A model of rampr's crosswalk pipeline:                                  *)
(*   rampr/bridge/io_bridge.py      build_crosswalk, align_io_to_bea_402   *)
(*   rampr/bridge/missing_bridge.py impute_missing_sectors                 *)
(*   rampr/datasets/core.py         fetch, clear_last_fetched,             *)
(*                                  last_fetched                           *)
(*   scripts/build_qcew_io_crosswalk.py  the build script                  *)
(*                                                                         *)
(* Tables are sequences of rows (records).  A text cell is a sequence of   *)
(* one-character strings, a numeric cell a tagged extended rational        *)
(* (finite n/d, +inf, -inf or NaN), so that pandas' NaN conventions        *)
(* (fillna, skipna sums, dropna in groupby) are modelled as they behave.   *)
(***************************************************************************)
EXTENDS Integers, Sequences, FiniteSets, TLC

-----------------------------------------------------------------------------
(* Text cells *)

\* The missing text cell (NaN / pd.NA in an object column).
NA == <<"<NA>">>

\* Character order used by string comparison (code-point order of the
\* characters that occur in the model).
Alphabet == <<" ", "#", "0", "1", "2", "3", "4", "5", "6", "7", "8", "9",
              "<NA>", "A", "B", "C", "L", "M", "Z", "a", "b">>

CharOrd(c) == CHOOSE i \in 1..Len(Alphabet) : Alphabet[i] = c

StrOrd(s) == [i \in 1..Len(s) |-> CharOrd(s[i])]

IsSpace(c) == c = " "

RECURSIVE lstrip(_)
lstrip(s) == IF s # <<>> /\ IsSpace(Head(s)) THEN lstrip(Tail(s)) ELSE s

RECURSIVE rstrip(_)
rstrip(s) ==
    IF s # <<>> /\ IsSpace(s[Len(s)]) THEN rstrip(SubSeq(s, 1, Len(s) - 1)) ELSE s

\* Series.str.strip() on one cell; a missing cell stays missing.
strip(s) == IF s = NA THEN NA ELSE rstrip(lstrip(s))

\* Series.str.zfill(width) on one cell of digits.
RECURSIVE zfill(_, _)
zfill(s, width) == IF Len(s) >= width THEN s ELSE zfill(<<"0">> \o s, width)

-----------------------------------------------------------------------------
(* Numeric cells *)

Abs(x) == IF x < 0 THEN -x ELSE x

RECURSIVE Gcd(_, _)
Gcd(a, b) == IF b = 0 THEN a ELSE Gcd(b, a % b)

\* The finite value n/d (d # 0) in lowest terms with a positive denominator.
Frac(n, d) ==
    LET g == Gcd(Abs(n), Abs(d))
        s == IF d < 0 THEN -1 ELSE 1
    IN  [k |-> "num", n |-> (s * n) \div g, d |-> (s * d) \div g]

Num(n)  == [k |-> "num", n |-> n, d |-> 1]
NaN     == [k |-> "nan", n |-> 0, d |-> 1]
PosInf  == [k |-> "inf", n |-> 1, d |-> 1]
NegInf  == [k |-> "inf", n |-> -1, d |-> 1]
\* A cell of a numeric column whose text is not a number.
Junk    == [k |-> "str", n |-> 0, d |-> 1]

isna(x)  == x.k = "nan"
notna(x) == ~isna(x)

Sign(x) == IF x.n > 0 THEN 1 ELSE IF x.n < 0 THEN -1 ELSE 0

\* pd.to_numeric(..., errors="coerce") on one cell.
to_numeric(x) == IF x.k = "str" THEN NaN ELSE x

fillna(x, v) == IF isna(x) THEN v ELSE x

\* IEEE addition, multiplication and division on extended rationals.
Add(a, b) ==
    IF isna(a) \/ isna(b) THEN NaN
    ELSE IF a.k = "inf" /\ b.k = "inf" THEN (IF a.n = b.n THEN a ELSE NaN)
    ELSE IF a.k = "inf" THEN a
    ELSE IF b.k = "inf" THEN b
    ELSE Frac(a.n * b.d + b.n * a.d, a.d * b.d)

Mul(a, b) ==
    IF isna(a) \/ isna(b) THEN NaN
    ELSE IF a.k = "inf" \/ b.k = "inf"
         THEN (IF Sign(a) * Sign(b) = 0 THEN NaN
               ELSE IF Sign(a) * Sign(b) > 0 THEN PosInf ELSE NegInf)
    ELSE Frac(a.n * b.n, a.d * b.d)

Div(a, b) ==
    IF isna(a) \/ isna(b) THEN NaN
    ELSE IF a.k = "inf" /\ b.k = "inf" THEN NaN
    ELSE IF a.k = "inf" THEN (IF Sign(a) * (IF b.n < 0 THEN -1 ELSE 1) > 0
                              THEN PosInf ELSE NegInf)
    ELSE IF b.k = "inf" THEN Num(0)
    ELSE IF b.n = 0 THEN (IF a.n = 0 THEN NaN
                          ELSE IF a.n > 0 THEN PosInf ELSE NegInf)
    ELSE Frac(a.n * b.d, a.d * b.n)

\* a <= b as IEEE compares them: false when either side is NaN.
Leq(a, b) ==
    IF isna(a) \/ isna(b) THEN FALSE
    ELSE IF a.k = "inf" THEN (a.n < 0 \/ (b.k = "inf" /\ b.n > 0))
    ELSE IF b.k = "inf" THEN b.n > 0
    ELSE a.n * b.d <= b.n * a.d

\* Series.sum(): missing values are skipped, the empty sum is 0.
RECURSIVE SumCells(_)
SumCells(s) ==
    IF s = <<>> THEN Num(0)
    ELSE IF isna(Head(s)) THEN SumCells(Tail(s))
    ELSE Add(Head(s), SumCells(Tail(s)))

-----------------------------------------------------------------------------
(* Sequences and sorting *)

Range(s) == {s[i] : i \in 1..Len(s)}

\* Lexicographic order on sequences of integers.
RECURSIVE LexLess(_, _)
LexLess(a, b) ==
    IF b = <<>> THEN FALSE
    ELSE IF a = <<>> THEN TRUE
    ELSE IF Head(a) # Head(b) THEN Head(a) < Head(b)
    ELSE LexLess(Tail(a), Tail(b))

\* Order on sort keys: a key is a tuple of components, each a sequence of
\* integers; keys compare component by component.
RECURSIVE KeyLess(_, _)
KeyLess(a, b) ==
    IF a = <<>> \/ b = <<>> THEN FALSE
    ELSE IF Head(a) # Head(b) THEN LexLess(Head(a), Head(b))
    ELSE KeyLess(Tail(a), Tail(b))

\* An insertion that puts a row before the rows of equal key: a sort that is
\* not stable.
RECURSIVE InsertReversingTies(_, _)
InsertReversingTies(p, sorted) ==
    IF sorted = <<>> THEN <<p>>
    ELSE IF ~KeyLess(Head(sorted)[1], p[1]) THEN <<p>> \o sorted
    ELSE <<Head(sorted)>> \o InsertReversingTies(p, Tail(sorted))

\* Insert the pair p = <<key, row>> after every pair whose key is not greater
\* (ties keep their order).
RECURSIVE InsertStable(_, _)
InsertStable(p, sorted) ==
    IF sorted = <<>> THEN <<p>>
    ELSE IF KeyLess(p[1], Head(sorted)[1]) THEN <<p>> \o sorted
    ELSE <<Head(sorted)>> \o InsertStable(p, Tail(sorted))

RECURSIVE SortPairs(_)
SortPairs(ps) ==
    IF ps = <<>> THEN <<>>
    ELSE InsertStable(ps[Len(ps)], SortPairs(SubSeq(ps, 1, Len(ps) - 1)))

\* DataFrame.sort_values(by, kind="stable"): rows[i] has sort key keys[i].
SortStable(rows, keys) ==
    LET sorted == SortPairs([i \in 1..Len(rows) |-> <<keys[i], rows[i]>>])
    IN  [i \in 1..Len(rows) |-> sorted[i][2]]

\* DataFrame.drop_duplicates(subset, keep="first"): rows[i] has key keys[i].
DropDuplicates(rows, keys) ==
    LET first(i) == \A j \in 1..(i - 1) : keys[j] # keys[i]
        RECURSIVE from(_)
        from(i) == IF i > Len(rows) THEN <<>>
                   ELSE (IF first(i) THEN <<rows[i]>> ELSE <<>>) \o from(i + 1)
    IN  from(1)

\* The concatenation of a sequence of sequences.
RECURSIVE Flatten(_)
Flatten(ss) == IF ss = <<>> THEN <<>> ELSE Head(ss) \o Flatten(Tail(ss))

-----------------------------------------------------------------------------
(* build_crosswalk: rampr/bridge/io_bridge.py                              *)
(*                                                                         *)
(* An input table is [cols |-> the columns of the CSV, rows |-> its rows]; *)
(* a row has a field for every column the code may read, and the field of  *)
(* a column that is not in cols is never read.                             *)

value_cols == <<"tap_wages_est_3", "tap_emplvl_est_3", "tap_estabs_count">>

required_all == {"area_fips", "naics_code", "tap_estabs_count",
                 "tap_wages_est_3", "tap_emplvl_est_3"}
required_409 == {"area_fips", "sector_code", "tap_estabs_count",
                 "tap_wages_est_3", "tap_emplvl_est_3"}
required_xw  == {"qcew_sector", "io_sector"}

NoError == [kind |-> "none", table |-> "", missing |-> {}]

\* A schema check that names one missing column of the first table that
\* lacks any.
read_error_naming_one(all, c409, x) ==
    LET one(S) == {CHOOSE c \in S : TRUE}
    IN  IF required_all \ all.cols # {}
        THEN [kind |-> "ValueError", table |-> "QCEW ALL",
              missing |-> one(required_all \ all.cols)]
        ELSE IF required_409 \ c409.cols # {}
        THEN [kind |-> "ValueError", table |-> "QCEW 409",
              missing |-> one(required_409 \ c409.cols)]
        ELSE IF required_xw \ x.cols # {}
        THEN [kind |-> "ValueError", table |-> "Crosswalk",
              missing |-> one(required_xw \ x.cols)]
        ELSE NoError

\* _read_qcew_crosswalk_all_and_409: the first table that lacks a required
\* column raises ValueError naming all its missing columns.
read_error(all, c409, x) ==
    IF required_all \ all.cols # {}
    THEN [kind |-> "ValueError", table |-> "QCEW ALL", missing |-> required_all \ all.cols]
    ELSE IF required_409 \ c409.cols # {}
    THEN [kind |-> "ValueError", table |-> "QCEW 409", missing |-> required_409 \ c409.cols]
    ELSE IF required_xw \ x.cols # {}
    THEN [kind |-> "ValueError", table |-> "Crosswalk", missing |-> required_xw \ x.cols]
    ELSE NoError

\* Crosswalk cleaning: dropna on the keys, qcew_sector to Int64, io_sector to
\* a stripped string, dropna again.  Only the label columns the file has are
\* kept (keep, line 62).
clean_crosswalk(x) ==
    LET has(r)   == notna(r.qcew_sector) /\ r.io_sector # NA
        coerce(r) == [qcew_sector |-> to_numeric(r.qcew_sector),
                      io_sector   |-> strip(r.io_sector),
                      io_label    |-> IF "io_label" \in x.cols THEN r.io_label ELSE NA,
                      qcew_label  |-> IF "qcew_label" \in x.cols THEN r.qcew_label ELSE NA]
        kept     == SelectSeq(x.rows, has)
        coerced  == [i \in 1..Len(kept) |-> coerce(kept[i])]
    IN  SelectSeq(coerced, has)

\* Preprocessing of QCEW ALL: area_fips zero-padded, year defaulted to -1,
\* naics_code renamed to an Int64 qcew_sector, value columns to numbers with
\* NaN replaced by 0.
clean_qcew_all(all) ==
    [i \in 1..Len(all.rows) |->
        LET r == all.rows[i] IN
        [area_fips        |-> zfill(r.area_fips, 5),
         year             |-> IF "year" \in all.cols THEN r.year ELSE -1,
         qcew_sector      |-> to_numeric(r.naics_code),
         tap_wages_est_3  |-> fillna(to_numeric(r.tap_wages_est_3), Num(0)),
         tap_emplvl_est_3 |-> fillna(to_numeric(r.tap_emplvl_est_3), Num(0)),
         tap_estabs_count |-> fillna(to_numeric(r.tap_estabs_count), Num(0))]]

\* The columns of the cleaned QCEW ALL frame, which a weight_on name must be
\* one of.
clean_all_cols == {"area_fips", "year", "qcew_sector", "tap_wages_est_3",
                   "tap_emplvl_est_3", "tap_estabs_count"}

weight_on_error(w) ==
    IF w.kind = "col" /\ w.col \notin clean_all_cols
    THEN [kind |-> "ValueError", table |-> "weight_on", missing |-> {w.col}]
    ELSE NoError

\* int(s) for a cell of decimal digits.
RECURSIVE ParseInt(_)
ParseInt(s) ==
    IF s = <<>> THEN 0
    ELSE 10 * ParseInt(SubSeq(s, 1, Len(s) - 1)) + (CharOrd(s[Len(s)]) - CharOrd("0"))

\* The weight base of one cleaned row: the named column as a number with NaN
\* replaced by 0, or the constant.
weight_base(r, w) ==
    IF w.kind # "col" THEN Num(w.val)
    ELSE IF w.col = "year" THEN Num(r.year)
    ELSE IF w.col = "area_fips" THEN Num(ParseInt(r.area_fips))
    ELSE fillna(to_numeric(r[w.col]), Num(0))

\* A merge that pairs every detailed row with every crosswalk entry,
\* whatever its sector.
merge_crosswalk_any_sector(all_rows, xrows, w) ==
    LET joined(r)  ==
            [j \in 1..Len(xrows) |->
                [area_fips    |-> r.area_fips,
                 year         |-> r.year,
                 qcew_sector  |-> r.qcew_sector,
                 io_sector    |-> xrows[j].io_sector,
                 io_label     |-> xrows[j].io_label,
                 qcew_label   |-> xrows[j].qcew_label,
                 weight_base  |-> weight_base(r, w)]]
    IN  Flatten([i \in 1..Len(all_rows) |-> joined(all_rows[i])])

\* df_qcew_all.merge(df_crosswalk, on="qcew_sector", how="left") followed by
\* dropna(subset=["io_sector"]): one row per (detailed row, matching entry),
\* in the order of the detailed rows and, within one, of the entries.
merge_crosswalk(all_rows, xrows, w) ==
    LET matches(r) == SelectSeq(xrows, LAMBDA e : e.qcew_sector = r.qcew_sector)
        joined(r)  ==
            LET ms == matches(r) IN
            [j \in 1..Len(ms) |->
                [area_fips    |-> r.area_fips,
                 year         |-> r.year,
                 qcew_sector  |-> r.qcew_sector,
                 io_sector    |-> ms[j].io_sector,
                 io_label     |-> ms[j].io_label,
                 qcew_label   |-> ms[j].qcew_label,
                 weight_base  |-> weight_base(r, w)]]
    IN  Flatten([i \in 1..Len(all_rows) |-> joined(all_rows[i])])

\* groupby(["area_fips", "year", "io_sector"])["_weight_base"].transform("sum")
io_total(merged, r) ==
    LET same == SelectSeq(merged, LAMBDA m : /\ m.area_fips = r.area_fips
                                             /\ m.year = r.year
                                             /\ m.io_sector = r.io_sector)
    IN  SumCells([i \in 1..Len(same) |-> same[i].weight_base])

\* merged["weight"] = (merged["_weight_base"] / merged["io_total"]).fillna(0)
row_weight(merged, r) == fillna(Div(r.weight_base, io_total(merged, r)), Num(0))

with_weights(merged) ==
    [i \in 1..Len(merged) |->
        [area_fips   |-> merged[i].area_fips,
         year        |-> merged[i].year,
         qcew_sector |-> merged[i].qcew_sector,
         io_sector   |-> merged[i].io_sector,
         io_label    |-> merged[i].io_label,
         qcew_label  |-> merged[i].qcew_label,
         weight      |-> row_weight(merged, merged[i])]]

\* The grouping columns of the bridge: the labels only when the crosswalk
\* has them.
bridge_cols(xcols) ==
    <<"area_fips", "year", "qcew_sector", "io_sector">>
        \o (IF "io_label" \in xcols THEN <<"io_label">> ELSE <<>>)
        \o (IF "qcew_label" \in xcols THEN <<"qcew_label">> ELSE <<>>)

\* The cell of column c of row r as a sort-key component.
CellOrd(r, c) ==
    IF c = "year" THEN <<r.year>>
    ELSE IF c = "qcew_sector" THEN <<r.qcew_sector.n>>
    ELSE StrOrd(r[c])

\* The key of row r on the columns cols (a groupby, merge or sort key).
KeyOf(r, cols) == [j \in 1..Len(cols) |-> CellOrd(r, cols[j])]

\* A row with a missing cell in a grouping column belongs to no group
\* (groupby's dropna=True).
HasNaKey(r, cols) ==
    \E j \in 1..Len(cols) :
        IF cols[j] = "year" THEN FALSE
        ELSE IF cols[j] = "qcew_sector" THEN isna(r.qcew_sector)
        ELSE r[cols[j]] = NA

\* groupby(cols, as_index=False)[valcols].sum(): one row per key in key
\* order, carrying the first row's cells and the sums of the columns valcols.
GroupSum(rows, cols, valcols) ==
    LET grouped == SelectSeq(rows, LAMBDA r : ~HasNaKey(r, cols))
        keys    == [i \in 1..Len(grouped) |-> KeyOf(grouped[i], cols)]
        firsts  == DropDuplicates(grouped, keys)
        total(f, c) ==
            LET same == SelectSeq(grouped, LAMBDA r : KeyOf(r, cols) = KeyOf(f, cols))
            IN  SumCells([i \in 1..Len(same) |-> same[i][c]])
        summed  == [i \in 1..Len(firsts) |->
                      [c \in DOMAIN firsts[i] |->
                          IF c \in Range(valcols) THEN total(firsts[i], c)
                          ELSE firsts[i][c]]]
    IN  SortStable(summed, [i \in 1..Len(summed) |-> KeyOf(summed[i], cols)])

bridge_key == <<"area_fips", "year", "qcew_sector", "io_sector">>

\* The bridge without the drop_duplicates of line 133.
bridge_grouped_only(weighted, xcols) ==
    GroupSum(weighted, bridge_cols(xcols), <<"weight">>)

\* bridge = merged.groupby(bridge_cols)["weight"].sum(), then
\* drop_duplicates(subset=bridge_key, keep="first").
bridge_table(weighted, xcols) ==
    LET g == GroupSum(weighted, bridge_cols(xcols), <<"weight">>)
    IN  DropDuplicates(g, [i \in 1..Len(g) |-> KeyOf(g[i], bridge_key)])

\* applied_rows with the weight left out of the products: the detailed
\* values are summed as they are.
applied_rows_unweighted(all_rows, bridge) ==
    LET matches(r) == SelectSeq(bridge, LAMBDA b : /\ b.area_fips = r.area_fips
                                                   /\ b.year = r.year
                                                   /\ b.qcew_sector = r.qcew_sector)
        joined(r) ==
            LET ms == matches(r) IN
            [j \in 1..Len(ms) |->
                [area_fips        |-> r.area_fips,
                 year             |-> r.year,
                 io_sector        |-> ms[j].io_sector,
                 io_label         |-> ms[j].io_label,
                 tap_wages_est_3  |-> r.tap_wages_est_3,
                 tap_emplvl_est_3 |-> r.tap_emplvl_est_3,
                 tap_estabs_count |-> r.tap_estabs_count]]
    IN  Flatten([i \in 1..Len(all_rows) |-> joined(all_rows[i])])

\* qcew_for_apply.merge(bridge, on=["area_fips", "year", "qcew_sector"],
\* how="left").dropna(subset=["io_sector"]) with every value column
\* multiplied by the weight.
applied_rows(all_rows, bridge) ==
    LET matches(r) == SelectSeq(bridge, LAMBDA b : /\ b.area_fips = r.area_fips
                                                   /\ b.year = r.year
                                                   /\ b.qcew_sector = r.qcew_sector)
        joined(r) ==
            LET ms == matches(r) IN
            [j \in 1..Len(ms) |->
                [area_fips        |-> r.area_fips,
                 year             |-> r.year,
                 io_sector        |-> ms[j].io_sector,
                 io_label         |-> ms[j].io_label,
                 tap_wages_est_3  |-> Mul(r.tap_wages_est_3, ms[j].weight),
                 tap_emplvl_est_3 |-> Mul(r.tap_emplvl_est_3, ms[j].weight),
                 tap_estabs_count |-> Mul(r.tap_estabs_count, ms[j].weight)]]
    IN  Flatten([i \in 1..Len(all_rows) |-> joined(all_rows[i])])

agg_keys(xcols) ==
    <<"area_fips", "year", "io_sector">>
        \o (IF "io_label" \in xcols THEN <<"io_label">> ELSE <<>>)

\* io_agg_weighted: the applied rows summed per agg_keys, with io_label set
\* to NA when the crosswalk has no io_label column.
io_agg_weighted(applied, xcols) ==
    LET g == GroupSum(applied, agg_keys(xcols), value_cols)
    IN  [i \in 1..Len(g) |->
            [g[i] EXCEPT !.io_label = IF "io_label" \in xcols THEN @ ELSE NA]]

\* df_409_out: the coarse table in the io_agg layout.
df_409_out(c409) ==
    [i \in 1..Len(c409.rows) |->
        LET r == c409.rows[i] IN
        [area_fips        |-> zfill(zfill(r.area_fips, 5), 5),
         year             |-> IF "year" \in c409.cols THEN r.year ELSE -1,
         io_sector        |-> strip(strip(r.sector_code)),
         io_label         |-> IF "sector_name" \in c409.cols THEN r.sector_name ELSE NA,
         tap_wages_est_3  |-> fillna(to_numeric(r.tap_wages_est_3), Num(0)),
         tap_emplvl_est_3 |-> fillna(to_numeric(r.tap_emplvl_est_3), Num(0)),
         tap_estabs_count |-> fillna(to_numeric(r.tap_estabs_count), Num(0))]]

io_key(r) == <<r.area_fips, r.year, r.io_sector>>

\* fill_rows: the rows of df_409_out whose key is in no weighted row.
fill_rows(out409, weighted) ==
    SelectSeq(out409, LAMBDA r : \A i \in 1..Len(weighted) : io_key(weighted[i]) # io_key(r))

\* A concat of the weighted rows and the fill rows without the final
\* drop_duplicates.
io_agg_concat_only(weighted, out409) ==
    weighted \o fill_rows(out409, weighted)

\* io_agg = concat([io_agg_weighted, fill_rows]).drop_duplicates(key_cols)
io_agg_table(weighted, out409) ==
    LET both == weighted \o fill_rows(out409, weighted)
    IN  DropDuplicates(both, [i \in 1..Len(both) |-> io_key(both[i])])

\* build_crosswalk: the Crosswalk (bridge_df, io_agg_df) returned, or the
\* error raised.
build_crosswalk(all, c409, x, w) ==
    LET e1       == read_error(all, c409, x)
        e2       == weight_on_error(w)
        xrows    == clean_crosswalk(x)
        all_rows == clean_qcew_all(all)
        merged   == merge_crosswalk(all_rows, xrows, w)
        bridge   == bridge_table(with_weights(merged), x.cols)
        applied  == applied_rows(all_rows, bridge)
        weighted == io_agg_weighted(applied, x.cols)
    IN  IF e1 # NoError THEN [error |-> e1, bridge_df |-> <<>>, io_agg_df |-> <<>>]
        ELSE IF e2 # NoError THEN [error |-> e2, bridge_df |-> <<>>, io_agg_df |-> <<>>]
        ELSE [error     |-> NoError,
              bridge_df |-> bridge,
              io_agg_df |-> io_agg_table(weighted, df_409_out(c409))]

-----------------------------------------------------------------------------
(* load_402_sector_codes and align_io_to_bea_402: rampr/bridge/io_bridge.py *)

\* "".join(s.split()): the cell without its whitespace.
RECURSIVE remove_whitespace(_)
remove_whitespace(s) ==
    IF s = <<>> THEN <<>>
    ELSE (IF IsSpace(Head(s)) THEN <<>> ELSE <<Head(s)>>) \o remove_whitespace(Tail(s))

startswith_hash(s) == s # <<>> /\ Head(s) = "#"

\* A parser that tests the line as read, not stripped, for the comment mark.
RECURSIVE parse_codes_unstripped(_)
parse_codes_unstripped(raw_lines) ==
    IF raw_lines = <<>> THEN <<>>
    ELSE LET s == rstrip(lstrip(Head(raw_lines)))
         IN  (IF s = <<>> \/ startswith_hash(Head(raw_lines)) THEN <<>>
              ELSE <<remove_whitespace(s)>>)
                 \o parse_codes_unstripped(Tail(raw_lines))

\* The codes of the file's lines: blank lines and comment lines skipped,
\* whitespace removed (lines 246-252).
RECURSIVE parse_codes(_)
parse_codes(raw_lines) ==
    IF raw_lines = <<>> THEN <<>>
    ELSE LET s == rstrip(lstrip(Head(raw_lines)))
         IN  (IF s = <<>> \/ startswith_hash(s) THEN <<>> ELSE <<remove_whitespace(s)>>)
                 \o parse_codes(Tail(raw_lines))

\* A loader that returns the parsed codes without de-duplication.
keep_every_code(codes) == codes

\* De-duplication that keeps the first occurrence of each code (lines 255-260).
unique_codes(codes) == DropDuplicates(codes, codes)

\* load_402_sector_codes on the lines of the file: the unique codes in file
\* order; an empty list stands for the ValueError of line 263.
load_402_sector_codes(raw_lines) == unique_codes(parse_codes(raw_lines))

\* str.splitlines() on the text of the file (line 244): the pieces between
\* line ends, without a last empty piece.
RECURSIVE splitlines(_)
splitlines(text) ==
    IF text = <<>> THEN <<>>
    ELSE IF \A k \in 1..Len(text) : text[k] # "\n" THEN <<text>>
    ELSE LET k == CHOOSE j \in 1..Len(text) :
                      text[j] = "\n" /\ \A m \in 1..(j - 1) : text[m] # "\n"
         IN  <<SubSeq(text, 1, k - 1)>> \o splitlines(SubSeq(text, k + 1, Len(text)))

\* Series.astype(str) on one text cell: a missing cell becomes the text "nan".
astype_str(s) == IF s = NA THEN <<"n", "a", "n">> ELSE s

\* The position of code c in the code list: the order of the categorical.
\* A value outside the categories is a missing category, which sorts last.
CodePos(c, codes) ==
    IF c \in Range(codes) THEN CHOOSE i \in 1..Len(codes) : codes[i] = c
    ELSE Len(codes) + 1

numeric_cols == {"tap_estabs_count", "tap_wages_est_3", "tap_emplvl_est_3"}

\* A name bound to a table inside a call: the table, and whether the object
\* is the one the caller holds.  This binding is the caller's object itself.
no_copy(t) == [table |-> t, callers |-> TRUE]

\* DataFrame.copy() (line 299; missing_bridge.py lines 39 and 46): a new
\* object with the same contents.
copy(t) == [table |-> t, callers |-> FALSE]

\* The caller's table once the call is over: an assignment made through a
\* name bound to the caller's object is seen by the caller.
seen_by_caller(before, frame) ==
    IF frame.callers THEN frame.table ELSE before

\* The rows of the table with io_sector stripped, none of them discarded.
aligned_rows_unfiltered(df, codes) ==
    [i \in 1..Len(df.rows) |-> [df.rows[i] EXCEPT !.io_sector = strip(astype_str(@))]]

\* The rows kept by the filter of line 303: io_sector stripped and in the
\* universe.
aligned_rows(df, codes) ==
    LET stripped == [i \in 1..Len(df.rows) |->
                        [df.rows[i] EXCEPT !.io_sector = strip(astype_str(@))]]
    IN  SelectSeq(stripped, LAMBDA r : r.io_sector \in Range(codes))

\* key_cols (line 319): the key columns the table has.
align_key_cols(df) ==
    (IF "area_fips" \in df.cols THEN <<"area_fips">> ELSE <<>>)
        \o (IF "year" \in df.cols THEN <<"year">> ELSE <<>>)

\* A sort key that orders the codes as plain strings.
AlignSortKeyLexical(r, key_cols, codes) ==
    KeyOf(r, key_cols) \o << StrOrd(r.io_sector) >>

\* The sort key of a row: the key columns, then the code's position in the
\* code list.
AlignSortKey(r, key_cols, codes) ==
    KeyOf(r, key_cols) \o << <<CodePos(r.io_sector, codes)>> >>

\* The aligned rows left in the order of the input.
rows_unsorted(rows, key_cols, codes) == rows

\* Lines 312-316: the stable sort by the key columns, then the code position.
sort_aligned(rows, key_cols, codes) ==
    SortStable(rows, [i \in 1..Len(rows) |-> AlignSortKey(rows[i], key_cols, codes)])

\* A row of the padding frame of lines 324-330 (no key columns): the numeric
\* columns 0, every other column missing.
pad_row(code) ==
    [c \in {"io_sector", "io_label", "area_fips", "year"} \cup numeric_cols |->
        IF c = "io_sector" THEN code
        ELSE IF c \in numeric_cols THEN Num(0)
        ELSE IF c = "year" THEN 0
        ELSE NA]

\* The row a left merge gives a grid cell that matches no aligned row
\* (line 344): the key of the cell and every other column missing.
unmatched_row(combo, code) ==
    [io_sector |-> code, io_label |-> NA, area_fips |-> combo.area_fips,
     year |-> combo.year, tap_estabs_count |-> NaN, tap_wages_est_3 |-> NaN,
     tap_emplvl_est_3 |-> NaN]

\* Lines 321-335: densify against the single implicit group.
densify_no_keys(aligned, codes) ==
    LET present == {aligned[i].io_sector : i \in 1..Len(aligned)}
        missing_codes == SelectSeq(codes, LAMBDA c : c \notin present)
        pad == [i \in 1..Len(missing_codes) |-> pad_row(missing_codes[i])]
    IN  sort_aligned(aligned \o pad, <<>>, codes)

\* Lines 338-350: the (area_fips, year) pairs of the aligned rows crossed
\* with the code list, left-merged with the aligned rows, then sorted.
densify_grid(aligned, key_cols, codes) ==
    LET combos == DropDuplicates(aligned,
                      [i \in 1..Len(aligned) |-> KeyOf(aligned[i], key_cols)])
        cell(combo, code) ==
            LET ms == SelectSeq(aligned,
                          LAMBDA r : /\ KeyOf(r, key_cols) = KeyOf(combo, key_cols)
                                     /\ r.io_sector = code)
            IN  IF ms = <<>> THEN <<unmatched_row(combo, code)>> ELSE ms
        grid(combo) == Flatten([j \in 1..Len(codes) |-> cell(combo, codes[j])])
        out == Flatten([i \in 1..Len(combos) |-> grid(combos[i])])
    IN  sort_aligned(out, key_cols, codes)

NoRows == <<>>

\* The caller's io_agg_df after align_io_to_bea_402: the checks of lines
\* 290-295 raise before anything is assigned; line 300 assigns the stripped
\* io_sector column to df, and line 303 rebinds the name to a new table.
align_caller_table(io_agg_df, raw_lines) ==
    LET df == copy(io_agg_df)
    IN  IF "io_sector" \notin io_agg_df.cols \/ load_402_sector_codes(raw_lines) = <<>>
        THEN io_agg_df
        ELSE seen_by_caller(io_agg_df,
                 [df EXCEPT !.table.rows = aligned_rows_unfiltered(df.table, <<>>)])

\* align_io_to_bea_402(io_agg_df, codes_file, keep_all_codes): the aligned
\* rows, or the error raised.
align_io_to_bea_402(df, raw_lines, keep_all_codes) ==
    LET codes   == load_402_sector_codes(raw_lines)
        aligned == aligned_rows(df, codes)
        keys    == align_key_cols(df)
    IN  IF "io_sector" \notin df.cols
        THEN [error |-> [kind |-> "ValueError", table |-> "io_agg_df",
                         missing |-> {"io_sector"}],
              rows |-> NoRows]
        ELSE IF codes = <<>>
        THEN [error |-> [kind |-> "ValueError", table |-> "codes_file", missing |-> {}],
              rows |-> NoRows]
        ELSE [error |-> NoError,
              rows  |-> IF ~keep_all_codes THEN sort_aligned(aligned, keys, codes)
                        ELSE IF keys = <<>> THEN densify_no_keys(aligned, codes)
                        ELSE densify_grid(aligned, keys, codes)]

-----------------------------------------------------------------------------
(* impute_missing_sectors: rampr/bridge/missing_bridge.py                  *)
(*                                                                         *)
(* The imputer works in the log1p space of the target columns.  A log is   *)
(* kept as the value it is the log of: log1p and expm1 are increasing, so  *)
(* an order or a mean taken in log space is the one of the values.         *)

\* ImputationConfig.targets (line 12).
targets == <<"tap_estabs_count", "tap_wages_est_3", "tap_emplvl_est_3">>

\* The default of ImputationConfig.sector_levels (line 14).
default_sector_levels == <<3, 4, 5, 6>>

\* The prefix lengths get_pool tries, finest first (line 91).
pool_levels == <<6, 5, 4, 3>>

upper_char(c) == IF c = "a" THEN "A" ELSE IF c = "b" THEN "B" ELSE c

\* str.upper().
upper(s) == [i \in 1..Len(s) |-> upper_char(s[i])]

\* str[:L].
prefix(s, L) == SubSeq(s, 1, IF Len(s) < L THEN Len(s) ELSE L)

\* Lines 53-54: io_sector as a stripped string.
clean_sector(r) == [r EXCEPT !.io_sector = strip(astype_str(@))]

clean_sectors(rows) == [i \in 1..Len(rows) |-> clean_sector(rows[i])]

\* Line 57: the (year, area_fips) pairs of the main table, first occurrences.
gap_keys(rows) ==
    DropDuplicates(rows, [i \in 1..Len(rows) |-> <<rows[i].year, rows[i].area_fips>>])

\* Line 60: the distinct (io_sector, io_label) pairs of the designated sectors.
missing_pairs(ms) ==
    DropDuplicates(ms, [i \in 1..Len(ms) |-> <<ms[i].io_sector, ms[i].io_label>>])

\* An inserted row whose targets are 0.
gap_row_zero_filled(key, sector) ==
    [year |-> key.year, area_fips |-> key.area_fips,
     io_sector |-> sector.io_sector, io_label |-> sector.io_label,
     tap_estabs_count |-> Num(0), tap_wages_est_3 |-> Num(0), tap_emplvl_est_3 |-> Num(0)]

\* A row of to_add (lines 59-74): the key, the designated sector and its
\* label, every target missing.
gap_row(key, sector) ==
    [year |-> key.year, area_fips |-> key.area_fips,
     io_sector |-> sector.io_sector, io_label |-> sector.io_label,
     tap_estabs_count |-> NaN, tap_wages_est_3 |-> NaN, tap_emplvl_est_3 |-> NaN]

\* The merge key of lines 64-68.
gap_key(r) == <<r.year, r.area_fips, r.io_sector>>

\* Lines 59-70: the cross product of keys and designated sectors, less the
\* (year, area_fips, io_sector) combinations the main table holds.
to_add(rows, ms) ==
    LET keys  == gap_keys(rows)
        secs  == missing_pairs(ms)
        cross == Flatten([i \in 1..Len(keys) |->
                             [j \in 1..Len(secs) |-> gap_row(keys[i], secs[j])]])
    IN  SelectSeq(cross, LAMBDA t : \A i \in 1..Len(rows) : gap_key(rows[i]) # gap_key(t))

\* The caller's table after impute_missing_sectors, for either input
\* (lines 38-54): the io_sector column is assigned on df and on
\* missing_sectors; df2 is the new table pd.concat builds (line 76).
impute_caller_table(df_input) ==
    LET df == copy(df_input)
    IN  seen_by_caller(df_input, [df EXCEPT !.table = clean_sectors(@)])

\* df2 (line 76): the cleaned main table followed by the inserted rows.
gap_insert(df, ms) ==
    LET rows == clean_sectors(df)
    IN  rows \o to_add(rows, clean_sectors(ms))

\* The transient column of prefix length L (line 87).
p_col(L) ==
    CASE L = 1 -> "_p1" [] L = 2 -> "_p2" [] L = 3 -> "_p3"
      [] L = 4 -> "_p4" [] L = 5 -> "_p5" [] L = 6 -> "_p6"

\* The prefix columns of the configured lengths (lines 86-87).
p_cols(levels) == {p_col(levels[j]) : j \in 1..Len(levels)}

\* The columns dropped at line 124.
transient_cols(levels) == {"_sec", "_area"} \cup p_cols(levels)

IsDigit(c) == CharOrd("0") <= CharOrd(c) /\ CharOrd(c) <= CharOrd("9")

\* pd.to_numeric(text, errors="coerce") on the stripped text of a cell.
text_to_numeric(s) ==
    LET t == strip(s)
    IN  IF t # <<>> /\ \A i \in 1..Len(t) : IsDigit(t[i]) THEN Num(ParseInt(t)) ELSE NaN

\* Line 84: the sector key of a row.
sec_of(r) == prefix(upper(strip(astype_str(r.io_sector))), 6)

\* Lines 84-88: the row with its transient feature columns.
with_features(r, levels) ==
    [c \in DOMAIN r \cup transient_cols(levels) |->
        IF c = "_sec" THEN sec_of(r)
        ELSE IF c = "_area" THEN Div(text_to_numeric(astype_str(r.area_fips)), Num(10000))
        ELSE IF c \in p_cols(levels)
             THEN prefix(sec_of(r), CHOOSE L \in Range(levels) : p_col(L) = c)
        ELSE r[c]]

\* Line 92: the rows whose sector key shares the first L characters of sec_val.
pool_mask(rows, sec_val, L) ==
    {i \in 1..Len(rows) : prefix(rows[i]["_sec"], L) = prefix(sec_val, L)}

\* Line 93: the pool has at least K + 1 rows and every target has a
\* non-missing value in it.
qualifies(rows, pm, K) ==
    /\ Cardinality(pm) >= K + 1
    /\ \A c \in Range(targets) : \E i \in pm : notna(rows[i][c])

\* A pool search that tries the coarsest prefix length first.
get_pool_coarsest_first(rows, sec_val, K) ==
    LET ok == SelectSeq(pool_levels,
                        LAMBDA L : qualifies(rows, pool_mask(rows, sec_val, L), K))
    IN  IF ok = <<>> THEN [found |-> FALSE, level |-> 0, pm |-> {}]
        ELSE [found |-> TRUE, level |-> ok[Len(ok)],
              pm |-> pool_mask(rows, sec_val, ok[Len(ok)])]

\* get_pool (lines 90-95): the pool of the finest qualifying prefix length,
\* or None.
get_pool(rows, sec_val, K) ==
    LET ok == SelectSeq(pool_levels,
                        LAMBDA L : qualifies(rows, pool_mask(rows, sec_val, L), K))
    IN  IF ok = <<>> THEN [found |-> FALSE, level |-> 0, pm |-> {}]
        ELSE [found |-> TRUE, level |-> Head(ok),
              pm |-> pool_mask(rows, sec_val, Head(ok))]

\* A sector mask that takes every row sharing the first three characters.
group_mask_by_prefix(rows, sec_val) ==
    {i \in 1..Len(rows) : prefix(rows[i]["_sec"], 3) = prefix(sec_val, 3)}

\* Line 98: the rows of the sector.
group_mask(rows, sec_val) == {i \in 1..Len(rows) : rows[i]["_sec"] = sec_val}

\* np.log1p(x) is a finite number: x is finite and above -1.
log1p_finite(x) == x.k = "num" /\ x.n > -x.d

\* np.log1p(x) is infinite: x is -1 or +inf.
log1p_infinite(x) == x = Num(-1) \/ x = PosInf

\* KNNImputer.fit_transform and the DataFrame built from it (line 114)
\* raise ValueError: the matrix holds an infinity, or a column without any
\* value is left out of the result, which then has too few columns.
knn_raises(rows, pm) ==
    \/ \E i \in pm : \E c \in Range(targets) : log1p_infinite(rows[i][c])
    \/ \E c \in Range(targets) : \A i \in pm : ~log1p_finite(rows[i][c])
    \/ \A i \in pm : isna(rows[i]["_area"])

\* The values of column c the imputer can draw on in the pool.
donors(rows, pm, c) == {rows[i][c] : i \in {j \in pm : log1p_finite(rows[j][c])}}

\* The values a distance-weighted mean of up to K donors can take: a donor
\* itself (one neighbour, or a neighbour at distance 0), or with two or more
\* neighbours a value between the least and the greatest donor, of which the
\* model keeps the midpoint.
knn_values(D, K) ==
    LET lo == CHOOSE x \in D : \A y \in D : Leq(x, y)
        hi == CHOOSE x \in D : \A y \in D : Leq(y, x)
    IN  D \cup (IF K >= 2 /\ lo # hi THEN {Div(Add(lo, hi), Num(2))} ELSE {})

\* expm1 of the cell (i, c) of X_imp (line 114): a value the matrix holds is
\* kept, a missing one is imputed from the donors of its column.
imputed_values(rows, pm, K, i, c) ==
    IF log1p_finite(rows[i][c]) THEN {rows[i][c]}
    ELSE knn_values(donors(rows, pm, c), K)

\* A write that leaves the value as expm1 gave it.
no_clip(x) == x

\* .clip(lower=0) (line 115).
clip_lower0(x) == IF Leq(x, Num(0)) THEN Num(0) ELSE x

\* A write mask that takes every cell of the sector's rows.
write_mask_whole_group(in_group, missing) == in_group

\* Lines 118-119: a cell is written when its row is of the sector and the
\* cell is missing.
write_mask(in_group, missing) == in_group /\ missing

\* The target cells impute_sector writes for the sector sec_val.
written_cells(rows, sec_val) ==
    {cell \in (1..Len(rows)) \X Range(targets) :
        write_mask(cell[1] \in group_mask(rows, sec_val), isna(rows[cell[1]][cell[2]]))}

\* The ways to give every cell of the sequence cells a value of X_imp.
RECURSIVE fills(_, _, _, _)
fills(rows, pm, K, cells) ==
    IF cells = <<>> THEN {<<>>}
    ELSE LET rest == fills(rows, pm, K, Tail(cells))
             vals == imputed_values(rows, pm, K, Head(cells)[1], Head(cells)[2])
         IN  {<<v>> \o f : v \in vals, f \in rest}

\* The cells of a set as a sequence, in row then column order.
cell_seq(cells, n) ==
    Flatten([i \in 1..n |->
                SelectSeq([j \in 1..Len(targets) |-> <<i, targets[j]>>],
                          LAMBDA cell : cell \in cells)])

\* Lines 117-119: the table with the cells written, cells[k] with the
\* clipped value f[k].
write_cells(rows, cells, f) ==
    [i \in 1..Len(rows) |->
        [c \in DOMAIN rows[i] |->
            IF \E k \in 1..Len(cells) : cells[k] = <<i, c>>
            THEN clip_lower0(f[CHOOSE k \in 1..Len(cells) : cells[k] = <<i, c>>])
            ELSE rows[i][c]]]

\* The loop of lines 121-122 over the sector keys todo, on the table rows:
\* whether impute_sector raised, and else the target cells that hold a value
\* when the loop is over.  Which cells are filled and whether the imputer
\* raises do not depend on the values filled, of which one is taken.
RECURSIVE loop_outcome(_, _, _)
loop_outcome(rows, todo, K) ==
    IF todo = <<>>
    THEN [raised |-> FALSE,
          cells |-> {<<i, c>> \in (1..Len(rows)) \X Range(targets) : notna(rows[i][c])}]
    ELSE LET s     == Head(todo)
             g     == group_mask(rows, s)
             pool  == get_pool(rows, s, K)
             cells == cell_seq(written_cells(rows, s), Len(rows))
         IN  IF (\A i \in g : \A c \in Range(targets) : notna(rows[i][c])) \/ ~pool.found
             THEN loop_outcome(rows, Tail(todo), K)
             ELSE IF knn_raises(rows, pool.pm)
             THEN [raised |-> TRUE, cells |-> {}]
             ELSE loop_outcome(
                      write_cells(rows, cells,
                                  CHOOSE f \in fills(rows, pool.pm, K, cells) : TRUE),
                      Tail(todo), K)

\* A loop that leaves out the last sector key.
unique_secs_but_last(rows) ==
    LET first == DropDuplicates(rows, [i \in 1..Len(rows) |-> rows[i]["_sec"]])
    IN  [i \in 1..(Len(first) - 1) |-> first[i]["_sec"]]

\* Line 121: the sector keys in order of first appearance.
unique_secs(rows) ==
    LET first == DropDuplicates(rows, [i \in 1..Len(rows) |-> rows[i]["_sec"]])
    IN  [i \in 1..Len(first) |-> first[i]["_sec"]]

\* A drop that names the prefix columns of the default lengths.
drop_default_columns(rows, levels) ==
    [i \in 1..Len(rows) |->
        [c \in DOMAIN rows[i] \ transient_cols(default_sector_levels) |-> rows[i][c]]]

\* Line 124: the rows without the transient columns.
drop_transient(rows, levels) ==
    [i \in 1..Len(rows) |->
        [c \in DOMAIN rows[i] \ transient_cols(levels) |-> rows[i][c]]]

-----------------------------------------------------------------------------
(* fetch and the fetch record: rampr/datasets/core.py                      *)
(*                                                                         *)
(* A path is the sequence of its components below the cache root, the file *)
(* system the set of its directories and the set of its files.  The cache  *)
(* root (cache_dir, RAMPR_DATA_DIR) is the same in every call.             *)

\* The argument left at its default None.
None == "None"

NoFiles == [given |-> FALSE, names |-> <<>>]

GivenFiles(names) == [given |-> TRUE, names |-> names]

\* File names and version names in sorted() order.
FileNames == <<"a.csv", "b.csv", "zz.csv">>

VersionNames == <<"v1", "v2">>

\* rampr/datasets/specs.py with the registry files it names: an archive
\* dataset in two versions (the archive of the second has no member) and
\* a dataset of plain files.  members is what the remote archive holds.
DATASETS ==
    [qcew  |-> [v1 |-> [version |-> "v1", archive |-> "qcew.zip",
                        unpack_dir |-> "unpacked", registry |-> <<"qcew.zip">>,
                        members |-> {"a.csv", "b.csv"}],
                v2 |-> [version |-> "v2", archive |-> "qcew.zip",
                        unpack_dir |-> "unpacked", registry |-> <<"qcew.zip">>,
                        members |-> {}]],
     codes |-> [v1 |-> [version |-> "v1", archive |-> "",
                        unpack_dir |-> "", registry |-> <<"a.csv", "b.csv">>,
                        members |-> {}]]]

NoSpec == [version |-> "", archive |-> "", unpack_dir |-> "",
           registry |-> <<>>, members |-> {}]

\* get_spec: the spec of a dataset version, the latest one when version is
\* None; error is "" unless DatasetError is raised.
get_spec(name, version) ==
    IF name \notin DOMAIN DATASETS
    THEN [error |-> "unknown dataset", spec |-> NoSpec]
    ELSE LET versions == DATASETS[name]
             known    == SelectSeq(VersionNames, LAMBDA v : v \in DOMAIN versions)
             v        == IF version = None THEN known[Len(known)] ELSE version
         IN  IF v \notin DOMAIN versions
             THEN [error |-> "unknown version", spec |-> NoSpec]
             ELSE [error |-> "", spec |-> versions[v]]

\* _dataset_cache_dir: <cache>/datasets/<name>/<version>.
dataset_cache_dir(name, version) == <<"datasets", name, version>>

\* Path.mkdir(parents=True, exist_ok=True).
mkdir(fs, dir) == [fs EXCEPT !.dirs = @ \cup {dir}]

\* Path.exists().
exists(fs, p) == p \in fs.dirs \/ p \in fs.files

\* any(dir.iterdir()).
any_entry(fs, dir) ==
    \E p \in fs.dirs \cup fs.files :
        Len(p) = Len(dir) + 1 /\ SubSeq(p, 1, Len(dir)) = dir

\* pooch.retrieve and Pooch.fetch: the file is downloaded unless the cache
\* holds it; a download needs the network.
retrieve(fs, p, online) ==
    IF p \in fs.files THEN [error |-> "", fs |-> fs]
    ELSE IF online THEN [error |-> "", fs |-> [fs EXCEPT !.files = @ \cup {p}]]
    ELSE [error |-> "download failed", fs |-> fs]

\* The unpack test that extracts the archive on every call.
always_unpack(fs, unpack_to) == TRUE

\* The unpack test of line 424.
needs_unpack(fs, unpack_to) == ~exists(fs, unpack_to) \/ ~any_entry(fs, unpack_to)

\* _unpack_archive on a zip archive.
unpack_archive(fs, unpack_to, members) ==
    [dirs  |-> fs.dirs \cup {unpack_to},
     files |-> fs.files \cup {unpack_to \o <<m>> : m \in members}]

\* _list_files_recursive: the files below root, sorted.
list_files_recursive(fs, root) ==
    LET found == SelectSeq(FileNames, LAMBDA f : (root \o <<f>>) \in fs.files)
    IN  [i \in 1..Len(found) |-> root \o <<found[i]>>]

\* A list that is the very object it is given.
same_list(l) == [items |-> l, callers |-> TRUE]

\* list(x) (lines 40, 47, 418, 437, 441, 468): a new list object with the
\* items of x, which the holder of x does not hold.
list(l) == [items |-> l, callers |-> FALSE]

\* _LAST_FETCH[key] = list(result).
recorded(record, key, result) ==
    [k \in DOMAIN record \cup {key} |-> IF k = key THEN list(result).items ELSE record[k]]

\* A call of fetch that raises: what it did to the cache stays done.
raised(err, fs, record) ==
    [error |-> err, result |-> <<>>, fs |-> fs, record |-> record, unpacked |-> FALSE]

returned(result, fs, record, key, unpacked) ==
    [error |-> "", result |-> result, fs |-> fs,
     record |-> recorded(record, key, result), unpacked |-> unpacked]

\* The archive workflow of fetch (lines 394-442).
fetch_archive(name, spec, files, unpack, online, fs, record) ==
    LET base          == dataset_cache_dir(name, spec.version)
        key           == <<name, spec.version>>
        archive_local == base \o <<spec.archive>>
        got           == retrieve(fs, archive_local, online)
        unpack_to     == base \o <<spec.unpack_dir>>
        unpacks       == needs_unpack(got.fs, unpack_to)
        fs2           == IF unpacks THEN unpack_archive(got.fs, unpack_to, spec.members)
                         ELSE got.fs
        selected      == [i \in 1..Len(files.names) |-> unpack_to \o <<files.names[i]>>]
    IN  IF \A i \in 1..Len(spec.registry) : spec.registry[i] # spec.archive
        THEN raised("archive not in registry", fs, record)
        ELSE IF got.error # "" THEN raised(got.error, got.fs, record)
        ELSE IF ~unpack \/ spec.unpack_dir = ""
        THEN returned(<<archive_local>>, got.fs, record, key, FALSE)
        ELSE IF files.given /\ files.names # <<>>
        THEN IF \E i \in 1..Len(selected) : ~exists(fs2, selected[i])
             THEN raised("file not in archive", fs2, record)
             ELSE returned(selected, fs2, record, key, unpacks)
        ELSE returned(list_files_recursive(fs2, unpack_to), fs2, record, key, unpacks)

RECURSIVE fetch_each(_, _, _, _)
\* [Path(pup.fetch(f)) for f in wanted]: the comprehension stops at the
\* first download that fails.
fetch_each(fs, base, wanted, online) ==
    IF wanted = <<>> THEN [error |-> "", fs |-> fs]
    ELSE LET got == retrieve(fs, base \o <<Head(wanted)>>, online)
         IN  IF got.error # "" THEN got
             ELSE fetch_each(got.fs, base, Tail(wanted), online)

\* The non-archive workflow of fetch (lines 447-469).
fetch_files(name, spec, files, online, fs, record) ==
    LET base   == dataset_cache_dir(name, spec.version)
        key    == <<name, spec.version>>
        wanted == IF ~files.given THEN spec.registry ELSE files.names
        got    == fetch_each(fs, base, wanted, online)
    IN  IF \E i \in 1..Len(wanted) : \A j \in 1..Len(spec.registry) :
               spec.registry[j] # wanted[i]
        THEN raised("file not in registry", fs, record)
        ELSE IF got.error # "" THEN raised(got.error, got.fs, record)
        ELSE returned([i \in 1..Len(wanted) |-> base \o <<wanted[i]>>],
                      got.fs, record, key, FALSE)

\* fetch(name, version, files, cache_dir, unpack) on the file system fs and
\* the fetch record; online tells whether a download can succeed.
fetch(name, version, files, unpack, online, fs, record) ==
    LET gs  == get_spec(name, version)
        fs1 == mkdir(fs, dataset_cache_dir(name, gs.spec.version))
    IN  IF gs.error # "" THEN raised(gs.error, fs, record)
        ELSE IF gs.spec.archive # ""
        THEN fetch_archive(name, gs.spec, files, unpack, online, fs1, record)
        ELSE fetch_files(name, gs.spec, files, online, fs1, record)

\* clear_last_fetched.
clear_last_fetched(record) == [k \in {} |-> <<>>]

\* last_fetched(name, version) (lines 30-47): the error raised, or the
\* dictionary returned.
last_fetched(name, version, record) ==
    IF name = None /\ version = None
    THEN [error |-> "", result |-> [k \in DOMAIN record |-> list(record[k]).items]]
    ELSE IF name = None
    THEN [error |-> "version without name", result |-> [k \in {} |-> <<>>]]
    ELSE LET gs  == get_spec(name, version)
             key == <<name, gs.spec.version>>
         IN  IF gs.error # "" THEN [error |-> gs.error, result |-> [k \in {} |-> <<>>]]
             ELSE [error |-> "",
                   result |-> [k \in {key} |->
                                  list(IF key \in DOMAIN record THEN record[key]
                                       ELSE <<>>).items]]

\* The keys of the dictionary last_fetched returns whose list is the list
\* object of the record.
last_fetched_shares(name, version, record) ==
    LET out == last_fetched(name, version, record)
    IN  {k \in DOMAIN out.result \cap DOMAIN record : list(record[k]).callers}

\* The record after the caller has changed the lists it holds: the entries
\* whose list object the caller holds show the change.
after_caller_change(record, held, change) ==
    [k \in DOMAIN record |->
        IF k \notin held THEN record[k]
        ELSE IF change = "clear" THEN <<>>
        ELSE Append(record[k], <<"appended">>)]

-----------------------------------------------------------------------------
(* The inputs explored *)

\* Longest detailed table, crosswalk table and coarse table explored.
MaxDetailed == 2
MaxCrosswalk == 2
MaxCoarse == 1

Area06073 == <<"6", "0", "7", "3">>
IO5411    == <<"5", "4", "1", "1">>
IO5412    == <<"5", "4", "1", "2">>
LabelL    == <<"L">>
LabelM    == <<"M">>

DetailedRow(naics, wages, emp) ==
    [area_fips |-> Area06073, year |-> 2024, naics_code |-> naics,
     tap_wages_est_3 |-> wages, tap_emplvl_est_3 |-> emp, tap_estabs_count |-> Num(1)]

DetailedRows ==
    << DetailedRow(Num(541100), Num(100), Num(10)),
       DetailedRow(Num(541200), Num(300), Num(30)),
       DetailedRow(Num(541100), NaN, Junk),
       DetailedRow(Num(541200), Num(-100), Num(5)) >>

CrosswalkRow(q, io, iol) ==
    [qcew_sector |-> q, io_sector |-> io, io_label |-> iol, qcew_label |-> <<"a">>]

CrosswalkRows ==
    << CrosswalkRow(Num(541100), IO5411, LabelL),
       CrosswalkRow(Num(541200), IO5411, LabelL),
       CrosswalkRow(Num(541100), <<" ">> \o IO5411, LabelM),
       CrosswalkRow(Num(541200), IO5412, NA) >>

CoarseRow(code, wages) ==
    [area_fips |-> Area06073, year |-> 2024, sector_code |-> code,
     sector_name |-> LabelL, tap_wages_est_3 |-> wages,
     tap_emplvl_est_3 |-> Junk, tap_estabs_count |-> Num(1)]

CoarseRows == << CoarseRow(IO5411 \o <<" ">>, Num(900)) >>

\* All sequences over S of length at most n.
SeqsUpTo(S, n) == UNION {[1..m -> S] : m \in 0..n}

\* The tables of at most n rows drawn from the list rows, with repetition,
\* in the order of the list (a file is explored in one row order).
TablesOver(rows, n) ==
    LET picks == {s \in SeqsUpTo(1..Len(rows), n) :
                    \A i, j \in 1..Len(s) : i < j => s[i] <= s[j]}
    IN  {[i \in 1..Len(s) |-> rows[s[i]]] : s \in picks}

DetailedTables ==
    [cols : {required_all, required_all \cup {"year"}},
     rows : TablesOver(DetailedRows, MaxDetailed)]

CrosswalkTables ==
    [cols : {required_xw, required_xw \cup {"io_label"},
             required_xw \cup {"io_label", "qcew_label"}},
     rows : TablesOver(CrosswalkRows, MaxCrosswalk)]

CoarseTables ==
    [cols : {required_409 \cup {"year", "sector_name"}},
     rows : TablesOver(CoarseRows, MaxCoarse)]

WeightOns ==
    { [kind |-> "col", col |-> "tap_wages_est_3", val |-> 0],
      [kind |-> "col", col |-> "naics_code", val |-> 0],
      [kind |-> "const", col |-> "", val |-> 1] }

\* Longest table of the calls that explore the tables' columns.
MaxSchemaRows == 1

\* Tables with and without their required columns.
SchemaDetailedTables ==
    [cols : {required_all \cup {"year"}, required_all \ {"naics_code"},
             required_all \ {"naics_code", "tap_wages_est_3"}, {}},
     rows : TablesOver(DetailedRows, MaxSchemaRows)]

SchemaCoarseTables ==
    [cols : {required_409 \cup {"year", "sector_name"}, required_409 \ {"sector_code"}},
     rows : TablesOver(CoarseRows, MaxSchemaRows)]

SchemaCrosswalkTables ==
    [cols : {required_xw \cup {"io_label", "qcew_label"}, {"io_sector"}, {"io_label"}},
     rows : TablesOver(CrosswalkRows, MaxSchemaRows)]

\* Longest table passed to align_io_to_bea_402.
MaxAlignRows == 3

CodeA == <<"A">>
CodeB == <<"B">>
CodeZ == <<"Z">>
Area01001 == <<"0", "1", "0", "0", "1">>

AlignRow(area, yr, code, wages) ==
    [io_sector |-> code, io_label |-> LabelL, area_fips |-> area, year |-> yr,
     tap_estabs_count |-> Num(1), tap_wages_est_3 |-> wages,
     tap_emplvl_est_3 |-> Num(2)]

AlignRows ==
    { AlignRow(zfill(Area06073, 5), 2024, CodeB \o <<" ">>, Num(5)),
      AlignRow(zfill(Area06073, 5), 2024, CodeA, Num(7)),
      AlignRow(Area01001, 2024, CodeA, Num(9)),
      AlignRow(zfill(Area06073, 5), 2023, CodeZ, Num(1)),
      AlignRow(zfill(Area06073, 5), 2024, CodeA, NaN) }

io_agg_cols == {"io_sector", "io_label", "year", "area_fips",
                "tap_estabs_count", "tap_wages_est_3", "tap_emplvl_est_3"}

\* A row of a table with the columns cols: the cells of the other columns
\* do not exist (they hold a fixed filler that is never read).
OnColumns(r, cols) ==
    [r EXCEPT !.area_fips = IF "area_fips" \in cols THEN @ ELSE NA,
              !.year = IF "year" \in cols THEN @ ELSE 0]

AlignTables ==
    { [cols |-> cols, rows |-> [i \in 1..Len(rows) |-> OnColumns(rows[i], cols)]] :
        cols \in {io_agg_cols, io_agg_cols \ {"year"}, io_agg_cols \ {"area_fips", "year"}},
        rows \in SeqsUpTo(AlignRows, MaxAlignRows) }

\* The code-universe files: each a sequence of lines.
CodeFiles ==
    { <<CodeA, CodeB>>,
      <<CodeB, <<"#", " ", "A">>, <<>>, CodeA, <<" ">> \o CodeB>>,
      << <<"#", "A">>, <<" ">> >> }

\* Longest main table passed to impute_missing_sectors.
MaxImputeRows == 3

\* Longest table of designated sectors.
MaxMissingSectors == 1

Sec54111 == <<"5", "4", "1", "1", "1">>
Sec54112 == <<"5", "4", "1", "1", "2">>
SecAb    == <<"a", "b">>

ImputeRow(yr, area, code, estabs, wages, emp) ==
    [io_sector |-> code, io_label |-> LabelL, area_fips |-> area, year |-> yr,
     tap_estabs_count |-> estabs, tap_wages_est_3 |-> wages,
     tap_emplvl_est_3 |-> emp]

\* Main-table rows: complete ones, ones with missing targets, a wage between
\* -1 and 0, a wage below -1 (no log1p) and a wage of -1 (log1p infinite).
ImputeRows ==
    { ImputeRow(2024, zfill(Area06073, 5), Sec54111, Num(1), Num(3), Num(2)),
      ImputeRow(2024, zfill(Area06073, 5), Sec54112, Num(1), NaN, Num(2)),
      ImputeRow(2024, Area01001, Sec54111, Num(1), Frac(-1, 2), NaN),
      ImputeRow(2023, zfill(Area06073, 5), IO5412 \o <<" ">>, Num(1), Num(-2), Num(2)),
      ImputeRow(2024, Area01001, SecAb, NaN, Num(-1), Num(2)) }

MainTables == SeqsUpTo(ImputeRows, MaxImputeRows)

\* Rows for the calls that explore the order of processing: a complete row,
\* a row with a missing target, a row whose only wage is below -1, a
\* complete row of a sector that shares three characters with them, and a
\* row of another sector with a wage of -1.
OrderRows ==
    { ImputeRow(2024, zfill(Area06073, 5), Sec54111, Num(1), Num(3), Num(2)),
      ImputeRow(2024, Area01001, Sec54111, Num(1), Frac(-1, 2), NaN),
      ImputeRow(2024, Area01001, Sec54111, Num(1), Num(-2), NaN),
      ImputeRow(2023, zfill(Area06073, 5), IO5412, Num(1), Num(3), Num(2)),
      ImputeRow(2024, Area01001, SecAb, NaN, Num(-1), Num(2)) }

MissingSectorRows ==
    << [io_sector |-> Sec54112, io_label |-> LabelL],
       [io_sector |-> <<" ">> \o IO5412, io_label |-> LabelL],
       [io_sector |-> upper(SecAb), io_label |-> LabelM] >>

MissingSectorTables == TablesOver(MissingSectorRows, MaxMissingSectors)

\* Longest main table of the calls that explore the configured lengths.
MaxLevelRows == 2

\* ImputationConfig.sector_levels: the default and other tuples of distinct
\* lengths.
SectorLevelConfigs == {default_sector_levels, <<2, 4>>, <<5>>, <<1, 2, 3>>}

\* ImputationConfig.k_neighbors: the neighbour counts explored.
KNeighbors == {1, 2}

\* Longest code-universe file passed to load_402_sector_codes alone.
MaxLines == 4

\* Lines of a code-universe file: codes, a code with whitespace around and
\* inside it, a comment after a blank, a blank line, a code that holds a '#'
\* after its first character.
CodeLines ==
    { CodeA, CodeB,
      <<" ", "A", " ", "B", " ">>,
      <<" ", "#", "A">>,
      <<" ">>,
      <<"A", "#">> }

LoaderFiles == SeqsUpTo(CodeLines, MaxLines)

\* The defaults the build script leaves in place: weight_on of
\* build_crosswalk, keep_all_codes of align_io_to_bea_402 and
\* ImputationConfig.k_neighbors.
default_weight_on == [kind |-> "col", col |-> "tap_wages_est_3", val |-> 0]

default_keep_all_codes == FALSE

default_k_neighbors == 5

\* The files of the build script: complete tables over two detailed
\* sectors, crosswalks that map them to one IO sector or to two, and code
\* universes of two and three codes.
PipelineDetailedTables ==
    [cols : {required_all \cup {"year"}},
     rows : TablesOver(SubSeq(DetailedRows, 1, 2), MaxDetailed)]

PipelineCrosswalkTables ==
    [cols : {required_xw \cup {"io_label"}},
     rows : TablesOver(<<CrosswalkRows[1], CrosswalkRows[4]>>, MaxCrosswalk)]

PipelineCodeFiles ==
    { <<IO5411, IO5412>>, <<Sec54112, IO5412, IO5411>> }

\* Most calls of fetch and clear_last_fetched explored in one process.
MaxCalls == 2

FetchNames == {"qcew", "codes", "nope"}

FetchVersions == {None, "v1", "v2"}

FetchFiles == {NoFiles, GivenFiles(<<>>), GivenFiles(<<"b.csv", "a.csv">>),
               GivenFiles(<<"zz.csv">>)}

-----------------------------------------------------------------------------
(* State *)

VARIABLES
    qcew_all,        \* the detailed (QCEW ALL) table passed to build_crosswalk
    qcew_409,        \* the coarse (QCEW 409) table
    crosswalk,       \* the raw crosswalk table
    weight_on,       \* the weight basis
    cw,              \* what build_crosswalk returned or raised
    bpc,             \* "start" before the call, "done" or "error" after it
    io_agg_in,       \* the table passed to align_io_to_bea_402
    codes_file,      \* the lines of the code-universe file
    keep_all_codes,  \* the densify flag
    aligned_out,     \* what align_io_to_bea_402 returned or raised
    realigned_out,   \* what it returned on its own output
    apc,             \* "start", "aligned", "realigned", "error" or "idle"
    df_main,         \* the main table passed to impute_missing_sectors
    missing_sectors, \* the table of designated sectors
    k_neighbors,     \* ImputationConfig.k_neighbors
    sector_levels,   \* ImputationConfig.sector_levels
    df2,             \* the table after gap insertion (line 76)
    df2_imputed,     \* the table being imputed, then the table returned
    sec_todo,        \* the sector keys the loop of line 121 has yet to process
    ipc,             \* "start", "imputing", "done", "error" or "idle"
    sector_file,     \* the lines of the file passed to load_402_sector_codes
    loaded,          \* the list load_402_sector_codes returned
    reloaded,        \* the list returned for the file written from the list returned
    lpc,             \* "start", "loaded", "reloaded", "error" or "idle"
    fs,              \* the dataset cache: its directories and its files
    LAST_FETCH,      \* _LAST_FETCH: (name, version) -> the paths recorded
    held,            \* the keys whose recorded list object the caller holds
    last_success,    \* per key, what its last successful fetch since the last clear returned
    lf_out,          \* what last_fetched returned, if it was the last call
    prev_call,       \* the call of fetch before the last one
    last_call,       \* the last call of fetch: arguments and outcome
    fs_before,       \* the cache the last call of fetch started from
    ncalls,          \* the number of calls made
    fpc              \* "ready" or "idle"

bridge_vars == <<qcew_all, qcew_409, crosswalk, weight_on, cw, bpc>>
align_vars  == <<io_agg_in, codes_file, keep_all_codes, aligned_out, realigned_out, apc>>

impute_vars == <<df_main, missing_sectors, k_neighbors, sector_levels, df2, df2_imputed, sec_todo, ipc>>

load_vars   == <<sector_file, loaded, reloaded, lpc>>

fetch_vars  == <<fs, LAST_FETCH, prev_call, last_call, fs_before, ncalls, fpc,
                 held, last_success, lf_out>>

vars == <<bridge_vars, align_vars, impute_vars, load_vars, fetch_vars>>

NoCrosswalk == [error |-> NoError, bridge_df |-> <<>>, io_agg_df |-> <<>>]
NoAligned   == [error |-> NoError, rows |-> NoRows]
NoTable     == [cols |-> {}, rows |-> NoRows]

\* build_crosswalk is not called.
BridgeIdle ==
    /\ qcew_all = NoTable /\ qcew_409 = NoTable /\ crosswalk = NoTable
    /\ weight_on = [kind |-> "const", col |-> "", val |-> 0]
    /\ cw = NoCrosswalk
    /\ bpc = "idle"

\* align_io_to_bea_402 is not called.
AlignIdle ==
    /\ io_agg_in = NoTable /\ codes_file = <<>> /\ keep_all_codes = FALSE
    /\ aligned_out = NoAligned /\ realigned_out = NoAligned
    /\ apc = "idle"

\* impute_missing_sectors is not called.
ImputeIdle ==
    /\ df_main = NoRows /\ missing_sectors = NoRows /\ k_neighbors = 0
    /\ sector_levels = <<>>
    /\ df2 = NoRows /\ df2_imputed = NoRows /\ sec_todo = <<>>
    /\ ipc = "idle"

\* load_402_sector_codes is not called on its own.
LoadIdle ==
    /\ sector_file = <<>> /\ loaded = <<>> /\ reloaded = <<>> /\ lpc = "idle"

NoFs == [dirs |-> {}, files |-> {}]

NoRecord == [k \in {} |-> <<>>]

NoOut == [error |-> "no call", result |-> NoRecord]

NoCall == [name |-> "", version |-> "", files |-> NoFiles, unpack |-> FALSE,
           error |-> "no call", result |-> <<>>, unpacked |-> FALSE]

\* fetch is not called.
FetchIdle ==
    /\ fs = NoFs /\ LAST_FETCH = NoRecord
    /\ prev_call = NoCall /\ last_call = NoCall /\ fs_before = NoFs
    /\ ncalls = 0 /\ fpc = "idle"
    /\ held = {} /\ last_success = NoRecord /\ lf_out = NoOut

BridgeInit ==
    /\ qcew_all \in DetailedTables
    /\ qcew_409 \in CoarseTables
    /\ crosswalk \in CrosswalkTables
    /\ weight_on \in WeightOns
    /\ cw = NoCrosswalk
    /\ bpc = "start"
    /\ AlignIdle
    /\ ImputeIdle
    /\ LoadIdle /\ FetchIdle

\* One call of build_crosswalk on the inputs.
BuildCrosswalk ==
    /\ bpc = "start"
    /\ cw' = build_crosswalk(qcew_all, qcew_409, crosswalk, weight_on)
    /\ bpc' = IF cw'.error = NoError THEN "done" ELSE "error"
    /\ UNCHANGED <<qcew_all, qcew_409, crosswalk, weight_on, align_vars, impute_vars, load_vars, fetch_vars>>

BridgeNext == BuildCrosswalk

SpecBridge == BridgeInit /\ [][BridgeNext]_vars

\* build_crosswalk on tables that may lack required columns.
SchemaInit ==
    /\ qcew_all \in SchemaDetailedTables
    /\ qcew_409 \in SchemaCoarseTables
    /\ crosswalk \in SchemaCrosswalkTables
    /\ weight_on \in WeightOns
    /\ cw = NoCrosswalk
    /\ bpc = "start"
    /\ AlignIdle
    /\ ImputeIdle
    /\ LoadIdle /\ FetchIdle

SpecSchema == SchemaInit /\ [][BridgeNext]_vars

AlignInit ==
    /\ io_agg_in \in AlignTables
    /\ codes_file \in CodeFiles
    /\ keep_all_codes \in BOOLEAN
    /\ aligned_out = NoAligned
    /\ realigned_out = NoAligned
    /\ apc = "start"
    /\ BridgeIdle
    /\ ImputeIdle
    /\ LoadIdle /\ FetchIdle

\* One call of align_io_to_bea_402 on the inputs.
Align ==
    /\ apc = "start"
    /\ aligned_out' = align_io_to_bea_402(io_agg_in, codes_file, keep_all_codes)
    /\ apc' = IF aligned_out'.error = NoError THEN "aligned" ELSE "error"
    /\ io_agg_in' = align_caller_table(io_agg_in, codes_file)
    /\ UNCHANGED <<codes_file, keep_all_codes, realigned_out, bridge_vars, impute_vars, load_vars, fetch_vars>>

\* A second call, on the table the first call returned, with the same code
\* file and flag.
Realign ==
    /\ apc = "aligned"
    /\ realigned_out' =
           align_io_to_bea_402([cols |-> io_agg_in.cols, rows |-> aligned_out.rows],
                               codes_file, keep_all_codes)
    /\ apc' = "realigned"
    /\ aligned_out' =
           [aligned_out EXCEPT !.rows =
               align_caller_table([cols |-> io_agg_in.cols, rows |-> aligned_out.rows],
                                  codes_file).rows]
    /\ UNCHANGED <<io_agg_in, codes_file, keep_all_codes, bridge_vars, impute_vars, load_vars, fetch_vars>>

AlignNext == Align \/ Realign

SpecAlign == AlignInit /\ [][AlignNext]_vars

ImputeInit ==
    /\ df_main \in MainTables
    /\ missing_sectors \in MissingSectorTables
    /\ k_neighbors \in KNeighbors
    /\ sector_levels = default_sector_levels
    /\ df2 = NoRows
    /\ df2_imputed = NoRows
    /\ sec_todo = <<>>
    /\ ipc = "start"
    /\ BridgeIdle
    /\ AlignIdle
    /\ LoadIdle /\ FetchIdle

\* Lines 53-88: gap insertion and the transient feature columns.
GapInsert ==
    /\ ipc = "start"
    /\ df2' = gap_insert(df_main, missing_sectors)
    /\ df2_imputed' = [i \in 1..Len(df2') |-> with_features(df2'[i], sector_levels)]
    /\ sec_todo' = unique_secs(df2_imputed')
    /\ ipc' = "imputing"
    /\ df_main' = impute_caller_table(df_main)
    /\ missing_sectors' = impute_caller_table(missing_sectors)
    /\ UNCHANGED <<k_neighbors, sector_levels, bridge_vars, align_vars, load_vars, fetch_vars>>

\* impute_sector (lines 97-119) for the k-th of the sector keys the loop of
\* line 121 has not processed.
ImputeSectorAt(k) ==
    /\ ipc = "imputing"
    /\ k \in 1..Len(sec_todo)
    /\ LET s     == sec_todo[k]
           rest  == SubSeq(sec_todo, 1, k - 1) \o SubSeq(sec_todo, k + 1, Len(sec_todo))
           rows  == df2_imputed
           g     == group_mask(rows, s)
           pool  == get_pool(rows, s, k_neighbors)
           cells == cell_seq(written_cells(rows, s), Len(rows))
       IN  IF (\A i \in g : \A c \in Range(targets) : notna(rows[i][c])) \/ ~pool.found
           THEN /\ sec_todo' = rest
                /\ UNCHANGED <<df2_imputed, ipc>>
           ELSE IF knn_raises(rows, pool.pm)
           THEN /\ ipc' = "error"
                /\ UNCHANGED <<df2_imputed, sec_todo>>
           ELSE /\ \E f \in fills(rows, pool.pm, k_neighbors, cells) :
                       df2_imputed' = write_cells(rows, cells, f)
                /\ sec_todo' = rest
                /\ UNCHANGED ipc
    /\ UNCHANGED <<df_main, missing_sectors, k_neighbors, sector_levels, df2, bridge_vars, align_vars, load_vars, fetch_vars>>

\* The loop of line 121 takes the sector keys in order of first appearance.
ImputeSector == ImputeSectorAt(1)

\* The loop taken in another order: any sector key not yet processed.
ImputeAnySector == \E k \in 1..Len(sec_todo) : ImputeSectorAt(k)

\* Line 124: the transient columns are dropped and the table returned.
FinishImpute ==
    /\ ipc = "imputing"
    /\ sec_todo = <<>>
    /\ df2_imputed' = drop_transient(df2_imputed, sector_levels)
    /\ ipc' = "done"
    /\ UNCHANGED <<df_main, missing_sectors, k_neighbors, sector_levels, df2, sec_todo, bridge_vars, align_vars, load_vars, fetch_vars>>

ImputeNext == GapInsert \/ ImputeSector \/ FinishImpute

SpecImpute == ImputeInit /\ [][ImputeNext]_vars

\* impute_missing_sectors under other configured prefix lengths.
LevelsInit ==
    /\ df_main \in SeqsUpTo(ImputeRows, MaxLevelRows)
    /\ missing_sectors \in MissingSectorTables
    /\ k_neighbors \in KNeighbors
    /\ sector_levels \in SectorLevelConfigs
    /\ df2 = NoRows
    /\ df2_imputed = NoRows
    /\ sec_todo = <<>>
    /\ ipc = "start"
    /\ BridgeIdle
    /\ AlignIdle
    /\ LoadIdle /\ FetchIdle

SpecLevels == LevelsInit /\ [][ImputeNext]_vars

\* impute_missing_sectors with the sectors processed in every order.
OrderInit ==
    /\ df_main \in SeqsUpTo(OrderRows, MaxLevelRows)
    /\ missing_sectors \in MissingSectorTables
    /\ k_neighbors \in KNeighbors
    /\ sector_levels = default_sector_levels
    /\ df2 = NoRows
    /\ df2_imputed = NoRows
    /\ sec_todo = <<>>
    /\ ipc = "start"
    /\ BridgeIdle
    /\ AlignIdle
    /\ LoadIdle /\ FetchIdle

OrderNext == GapInsert \/ ImputeAnySector \/ FinishImpute

SpecOrder == OrderInit /\ [][OrderNext]_vars

LoadInit ==
    /\ sector_file \in LoaderFiles
    /\ loaded = <<>>
    /\ reloaded = <<>>
    /\ lpc = "start"
    /\ BridgeIdle
    /\ AlignIdle
    /\ ImputeIdle
    /\ FetchIdle

\* One call of load_402_sector_codes on the file: the list is returned, or
\* ValueError is raised when it is empty (lines 262-263).
LoadCodes ==
    /\ lpc = "start"
    /\ loaded' = load_402_sector_codes(sector_file)
    /\ lpc' = IF loaded' = <<>> THEN "error" ELSE "loaded"
    /\ UNCHANGED <<sector_file, reloaded, bridge_vars, align_vars, impute_vars, fetch_vars>>

\* The text of a file that holds the codes one per line.
one_code_per_line(codes) ==
    Flatten([i \in 1..Len(codes) |-> codes[i] \o <<"\n">>])

\* The list returned is written to a file, one code per line, and that file
\* is loaded (lines 244-265).
WriteAndReload ==
    /\ lpc = "loaded"
    /\ reloaded' = load_402_sector_codes(splitlines(one_code_per_line(loaded)))
    /\ lpc' = "reloaded"
    /\ UNCHANGED <<sector_file, loaded, bridge_vars, align_vars, impute_vars, fetch_vars>>

LoadNext == LoadCodes \/ WriteAndReload

SpecLoad == LoadInit /\ [][LoadNext]_vars

\* scripts/build_qcew_io_crosswalk.py: build_crosswalk with the default
\* weight basis, align_io_to_bea_402, impute_missing_sectors with the
\* default ImputationConfig, align_io_to_bea_402 again; both alignments
\* leave keep_all_codes at its default.
PipelineInit ==
    /\ qcew_all \in PipelineDetailedTables
    /\ qcew_409 \in CoarseTables
    /\ crosswalk \in PipelineCrosswalkTables
    /\ weight_on = default_weight_on
    /\ cw = NoCrosswalk
    /\ bpc = "start"
    /\ io_agg_in = NoTable
    /\ codes_file \in PipelineCodeFiles
    /\ keep_all_codes = default_keep_all_codes
    /\ aligned_out = NoAligned
    /\ realigned_out = NoAligned
    /\ apc = "wait"
    /\ df_main = NoRows
    /\ missing_sectors \in MissingSectorTables
    /\ k_neighbors = default_k_neighbors
    /\ sector_levels = default_sector_levels
    /\ df2 = NoRows
    /\ df2_imputed = NoRows
    /\ sec_todo = <<>>
    /\ ipc = "wait"
    /\ LoadIdle /\ FetchIdle

\* Line 31 of the script: the aggregate of the crosswalk is aligned and
\* handed to the imputer.
PipelineAlign ==
    /\ bpc = "done" /\ apc = "wait"
    /\ io_agg_in' = [cols |-> io_agg_cols, rows |-> cw.io_agg_df]
    /\ aligned_out' = align_io_to_bea_402(io_agg_in', codes_file, keep_all_codes)
    /\ apc' = IF aligned_out'.error = NoError THEN "aligned" ELSE "error"
    /\ df_main' = aligned_out'.rows
    /\ ipc' = IF aligned_out'.error = NoError THEN "start" ELSE "wait"
    /\ UNCHANGED <<codes_file, keep_all_codes, realigned_out, missing_sectors,
                   k_neighbors, sector_levels, df2, df2_imputed, sec_todo,
                   bridge_vars, load_vars, fetch_vars>>

\* Line 34 of the script: the imputed table is aligned again.
PipelineRealign ==
    /\ apc = "aligned" /\ ipc = "done"
    /\ realigned_out' =
           align_io_to_bea_402([cols |-> io_agg_cols, rows |-> df2_imputed],
                               codes_file, keep_all_codes)
    /\ apc' = "final"
    /\ UNCHANGED <<io_agg_in, codes_file, keep_all_codes, aligned_out,
                   bridge_vars, impute_vars, load_vars, fetch_vars>>

PipelineNext ==
    \/ BuildCrosswalk
    \/ PipelineAlign
    \/ GapInsert
    \/ ImputeSector
    \/ FinishImpute
    \/ PipelineRealign

SpecPipeline == PipelineInit /\ [][PipelineNext]_vars

\* A caller that holds one table for the aligner and two for the imputer and
\* calls both: one-row tables, so that the two calls are explored together.
CallerInit ==
    /\ io_agg_in \in {t \in AlignTables : Len(t.rows) = 1}
    /\ codes_file \in {f \in CodeFiles : Len(f) = 2}
    /\ keep_all_codes \in BOOLEAN
    /\ aligned_out = NoAligned
    /\ realigned_out = NoAligned
    /\ apc = "start"
    /\ df_main \in {t \in MainTables : Len(t) = 1}
    /\ missing_sectors \in {t \in MissingSectorTables : Len(t) <= 1}
    /\ k_neighbors = 1
    /\ sector_levels = default_sector_levels
    /\ df2 = NoRows
    /\ df2_imputed = NoRows
    /\ sec_todo = <<>>
    /\ ipc = "start"
    /\ BridgeIdle
    /\ LoadIdle /\ FetchIdle

CallerNext == Align \/ Realign \/ GapInsert \/ ImputeSector \/ FinishImpute

SpecCaller == CallerInit /\ [][CallerNext]_vars

\* A process starts with an empty cache and an empty fetch record.
FetchInit ==
    /\ fs = NoFs /\ LAST_FETCH = NoRecord
    /\ prev_call = NoCall /\ last_call = NoCall /\ fs_before = NoFs
    /\ ncalls = 0 /\ fpc = "ready"
    /\ held = {} /\ last_success = NoRecord /\ lf_out = NoOut
    /\ BridgeIdle
    /\ AlignIdle
    /\ ImputeIdle
    /\ LoadIdle

\* One call of fetch, with or without the network.
Fetch ==
    /\ fpc = "ready" /\ ncalls < MaxCalls
    /\ \E name \in FetchNames, version \in FetchVersions, files \in FetchFiles,
          unpack \in BOOLEAN, online \in BOOLEAN :
          LET out == fetch(name, version, files, unpack, online, fs, LAST_FETCH)
              key == <<name, get_spec(name, version).spec.version>>
          IN  /\ fs' = out.fs
              /\ LAST_FETCH' = out.record
              /\ last_call' = [name |-> name, version |-> version, files |-> files,
                               unpack |-> unpack, error |-> out.error,
                               result |-> out.result, unpacked |-> out.unpacked]
              /\ held' = IF out.error # "" THEN held
                         ELSE IF list(out.result).callers THEN held \cup {key}
                         ELSE held \ {key}
              /\ last_success' =
                     IF out.error # "" THEN last_success
                     ELSE [k \in DOMAIN last_success \cup {key} |->
                              IF k = key THEN out.result ELSE last_success[k]]
    /\ prev_call' = last_call
    /\ fs_before' = fs
    /\ ncalls' = ncalls + 1
    /\ lf_out' = NoOut
    /\ UNCHANGED <<fpc, bridge_vars, align_vars, impute_vars, load_vars>>

\* One call of clear_last_fetched.
ClearLastFetched ==
    /\ fpc = "ready" /\ ncalls < MaxCalls
    /\ LAST_FETCH' = clear_last_fetched(LAST_FETCH)
    /\ ncalls' = ncalls + 1
    /\ held' = {} /\ last_success' = NoRecord /\ lf_out' = NoOut
    /\ UNCHANGED <<fs, prev_call, last_call, fs_before, fpc,
                   bridge_vars, align_vars, impute_vars, load_vars>>

\* One call of last_fetched.
LastFetched ==
    /\ fpc = "ready" /\ ncalls < MaxCalls
    /\ \E name \in FetchNames \cup {None}, version \in FetchVersions :
          /\ lf_out' = last_fetched(name, version, LAST_FETCH)
          /\ held' = held \cup last_fetched_shares(name, version, LAST_FETCH)
    /\ ncalls' = ncalls + 1
    /\ UNCHANGED <<fs, LAST_FETCH, prev_call, last_call, fs_before, fpc, last_success,
                   bridge_vars, align_vars, impute_vars, load_vars>>

\* The caller changes the lists that fetch and last_fetched returned to it:
\* it empties them or appends a path to them.
CallerChangesLists ==
    /\ fpc = "ready" /\ ncalls < MaxCalls
    /\ last_call.error = "" \/ lf_out.error = ""
    /\ \E change \in {"clear", "append"} :
          LAST_FETCH' = after_caller_change(LAST_FETCH, held, change)
    /\ ncalls' = ncalls + 1
    /\ lf_out' = NoOut
    /\ UNCHANGED <<fs, prev_call, last_call, fs_before, fpc, held, last_success,
                   bridge_vars, align_vars, impute_vars, load_vars>>

FetchNext == Fetch \/ ClearLastFetched \/ LastFetched \/ CallerChangesLists

SpecFetch == FetchInit /\ [][FetchNext]_vars

-----------------------------------------------------------------------------
(* Claims about build_crosswalk *)

\* The merged frame (lines 119-120) of the current inputs.
MergedNow ==
    merge_crosswalk(clean_qcew_all(qcew_all), clean_crosswalk(crosswalk), weight_on)

\* The bridge rows of the (area_fips, year, io_sector) group of bridge row b.
BridgeGroup(b) ==
    SelectSeq(cw.bridge_df, LAMBDA r : io_key(r) = io_key(b))

GroupWeightSum(b) ==
    LET g == BridgeGroup(b) IN SumCells([i \in 1..Len(g) |-> g[i].weight])

IsPositive(x) == notna(x) /\ ~Leq(x, Num(0))

\* C1: in the returned bridge the weights of every (area_fips, year,
\* io_sector) group sum to 1 when the group's total weight base is positive
\* and to 0 when it is zero.
C1_GroupWeightsSumToOne ==
    bpc = "done" =>
        \A i \in 1..Len(cw.bridge_df) :
            LET b     == cw.bridge_df[i]
                total == io_total(MergedNow, b)
            IN  /\ IsPositive(total) => GroupWeightSum(b) = Num(1)
                /\ total = Num(0) => GroupWeightSum(b) = Num(0)

\* C2: every weight of the returned bridge lies in [0, 1].
C2_WeightsInUnitInterval ==
    bpc = "done" =>
        \A i \in 1..Len(cw.bridge_df) :
            /\ Leq(Num(0), cw.bridge_df[i].weight)
            /\ Leq(cw.bridge_df[i].weight, Num(1))

\* The scenario of C3: area 06073, sector 541100 with wages 100 and sector
\* 541200 with wages 300, both mapped to IO sector 5411, weighted on wages.
Scenario3 ==
    /\ qcew_all.rows = << DetailedRow(Num(541100), Num(100), Num(10)),
                          DetailedRow(Num(541200), Num(300), Num(30)) >>
    /\ crosswalk.rows = << CrosswalkRow(Num(541100), IO5411, LabelL),
                           CrosswalkRow(Num(541200), IO5411, LabelL) >>
    /\ weight_on = [kind |-> "col", col |-> "tap_wages_est_3", val |-> 0]

Scenario3Year == IF "year" \in qcew_all.cols THEN 2024 ELSE -1

\* The io_agg rows of the scenario's key (06073, year, 5411).
Scenario3AggRows ==
    SelectSeq(cw.io_agg_df,
              LAMBDA r : io_key(r) = <<zfill(Area06073, 5), Scenario3Year, IO5411>>)

Scenario3Bridge ==
    /\ Len(cw.bridge_df) = 2
    /\ \E i, j \in 1..2 :
        /\ cw.bridge_df[i].qcew_sector = Num(541100)
        /\ cw.bridge_df[i].weight = Frac(1, 4)
        /\ cw.bridge_df[j].qcew_sector = Num(541200)
        /\ cw.bridge_df[j].weight = Frac(3, 4)
    /\ \A i \in 1..2 : io_key(cw.bridge_df[i]) = <<zfill(Area06073, 5), Scenario3Year, IO5411>>

\* C3 as stated: in the scenario the bridge weights are 0.25 and 0.75 and the
\* single IO aggregate row of (06073, year, 5411) has wage total 400.
C3_ScenarioWageTotal400 ==
    (bpc = "done" /\ Scenario3) =>
        /\ Scenario3Bridge
        /\ Len(Scenario3AggRows) = 1
        /\ Scenario3AggRows[1].tap_wages_est_3 = Num(400)

\* C3 amended: in the scenario the bridge weights are 0.25 and 0.75 and the
\* single IO aggregate row of (06073, year, 5411) has wage total
\* 100 * 0.25 + 300 * 0.75 = 250, the weighted sum of the detailed wages.
C3_ScenarioWageTotal250 ==
    (bpc = "done" /\ Scenario3) =>
        /\ Scenario3Bridge
        /\ Len(Scenario3AggRows) = 1
        /\ Scenario3AggRows[1].tap_wages_est_3 = Num(250)

C3_Witness == bpc = "done" /\ Scenario3 /\ Len(Scenario3AggRows) = 1

MissingAll == required_all \ qcew_all.cols
Missing409 == required_409 \ qcew_409.cols
MissingXw  == required_xw \ crosswalk.cols

\* The first table, in the order detailed, coarse, crosswalk, that lacks a
\* required column, with the columns it lacks.
FirstOffender ==
    IF MissingAll # {} THEN [table |-> "QCEW ALL", missing |-> MissingAll]
    ELSE IF Missing409 # {} THEN [table |-> "QCEW 409", missing |-> Missing409]
    ELSE [table |-> "Crosswalk", missing |-> MissingXw]

\* C12: when a table passed to build_crosswalk lacks a required column, the
\* call raises a ValueError for the first such table (detailed, then coarse,
\* then crosswalk) that names every required column the table lacks, and
\* returns neither a bridge nor an aggregate.
C12_SchemaErrorNamesEveryMissingColumn ==
    (bpc \in {"done", "error"} /\ (MissingAll \cup Missing409 \cup MissingXw) # {}) =>
        /\ bpc = "error"
        /\ cw.error.kind = "ValueError"
        /\ cw.error.table = FirstOffender.table
        /\ cw.error.missing = FirstOffender.missing
        /\ cw.bridge_df = <<>>
        /\ cw.io_agg_df = <<>>

\* The call raised for a detailed table that lacks two columns while the
\* coarse table lacks one too.
C12_Witness ==
    /\ bpc = "error"
    /\ Cardinality(MissingAll) = 2
    /\ Missing409 # {}
    /\ cw.error.missing = MissingAll

\* The weighted aggregate (lines 151-166) and the reshaped coarse table
\* (lines 177-190) of the current call.
WeightedNow ==
    io_agg_weighted(applied_rows(clean_qcew_all(qcew_all), cw.bridge_df), crosswalk.cols)

CoarseNow == df_409_out(qcew_409)

KeysOf(rows) == {io_key(rows[i]) : i \in 1..Len(rows)}

\* The first row of rows with the key k.
FirstWithKey(rows, k) ==
    rows[CHOOSE i \in 1..Len(rows) :
            io_key(rows[i]) = k /\ \A j \in 1..(i - 1) : io_key(rows[j]) # k]

\* C16: the IO aggregate returned has exactly one row for every
\* (area_fips, year, io_sector) key of the weighted aggregate or of the
\* reshaped coarse table and no other row; the row is the weighted
\* aggregate's (first) row of the key when there is one and the coarse
\* table's (first) row of the key otherwise.
C16_AggregateOneRowPerKey ==
    bpc = "done" =>
        LET agg == cw.io_agg_df
            W   == WeightedNow
            C   == CoarseNow
        IN  /\ \A i, j \in 1..Len(agg) : i # j => io_key(agg[i]) # io_key(agg[j])
            /\ KeysOf(agg) = KeysOf(W) \cup KeysOf(C)
            /\ \A i \in 1..Len(agg) :
                   agg[i] = IF io_key(agg[i]) \in KeysOf(W)
                            THEN FirstWithKey(W, io_key(agg[i]))
                            ELSE FirstWithKey(C, io_key(agg[i]))

\* The aggregate returned holds a key that both the weighted aggregate and
\* the coarse table hold, with the weighted values, which differ from the
\* coarse ones.
C16_Witness ==
    /\ bpc = "done"
    /\ \E i \in 1..Len(cw.io_agg_df) :
        /\ io_key(cw.io_agg_df[i]) \in KeysOf(WeightedNow) \cap KeysOf(CoarseNow)
        /\ cw.io_agg_df[i] # FirstWithKey(CoarseNow, io_key(cw.io_agg_df[i]))

\* The products value * bridge weight of column c, over the cleaned detailed
\* rows of the area and year of key k and the returned bridge rows that map
\* the row's sector to the IO sector of k.
WeightedProducts(k, c) ==
    LET detailed == clean_qcew_all(qcew_all)
        of_row(r) ==
            LET bs == SelectSeq(cw.bridge_df,
                                LAMBDA b : /\ io_key(b) = k
                                           /\ b.qcew_sector = r.qcew_sector)
            IN  [j \in 1..Len(bs) |-> Mul(r[c], bs[j].weight)]
    IN  Flatten([i \in 1..Len(detailed) |->
                    IF detailed[i].area_fips = k[1] /\ detailed[i].year = k[2]
                    THEN of_row(detailed[i]) ELSE <<>>])

\* C20: for every (area_fips, year, io_sector) key of the returned bridge,
\* the aggregate returned has a row of that key, and every row of that key
\* has in each value column the sum of value * bridge weight over the
\* detailed rows of the area and year whose sector the bridge maps to the
\* IO sector.
C20_AggregateIsWeightedSum ==
    bpc = "done" =>
        \A i \in 1..Len(cw.bridge_df) :
            LET k == io_key(cw.bridge_df[i]) IN
            /\ k \in KeysOf(cw.io_agg_df)
            /\ \A j \in 1..Len(cw.io_agg_df) :
                   io_key(cw.io_agg_df[j]) = k =>
                       \A c \in Range(value_cols) :
                           cw.io_agg_df[j][c] = SumCells(WeightedProducts(k, c))

\* C21: every value cell of the cleaned detailed table, and the weight base
\* of every cleaned row, is a number greater than or equal to 0.
C21_CleanedValuesNonNegative ==
    bpc = "done" =>
        LET detailed == clean_qcew_all(qcew_all) IN
        \A i \in 1..Len(detailed) :
            /\ \A c \in Range(value_cols) :
                   notna(detailed[i][c]) /\ Leq(Num(0), detailed[i][c])
            /\ notna(weight_base(detailed[i], weight_on))
            /\ Leq(Num(0), weight_base(detailed[i], weight_on))

\* The (area_fips, year, qcew_sector, io_sector) key of a bridge row.
BridgeKeyOf(b) == <<b.area_fips, b.year, b.qcew_sector, b.io_sector>>

\* The cleaned crosswalk of the call holds two entries for one
\* (qcew_sector, io_sector) pair.
CrosswalkHasDuplicatePair ==
    LET x == clean_crosswalk(crosswalk) IN
    \E i, j \in 1..Len(x) :
        i < j /\ x[i].qcew_sector = x[j].qcew_sector /\ x[i].io_sector = x[j].io_sector

\* C22: no two rows of the returned bridge have the same (area_fips, year,
\* qcew_sector, io_sector).
C22_BridgeOneRowPerKey ==
    bpc = "done" =>
        \A i, j \in 1..Len(cw.bridge_df) :
            i # j => BridgeKeyOf(cw.bridge_df[i]) # BridgeKeyOf(cw.bridge_df[j])

\* The crosswalk holds one pair twice, a detailed row has its sector, and
\* the bridge has a row for it.
C22_Witness ==
    /\ bpc = "done"
    /\ CrosswalkHasDuplicatePair
    /\ LET x == clean_crosswalk(crosswalk) IN
       \E i, j \in 1..Len(x) : \E b \in 1..Len(cw.bridge_df) :
           /\ i < j /\ x[i].qcew_sector = x[j].qcew_sector /\ x[i].io_sector = x[j].io_sector
           /\ cw.bridge_df[b].qcew_sector = x[i].qcew_sector
           /\ cw.bridge_df[b].io_sector = x[i].io_sector

\* The detailed row r has a sector code with an entry in the cleaned
\* crosswalk.
IsMapped(r) ==
    LET x == clean_crosswalk(crosswalk) IN
    \E j \in 1..Len(x) : x[j].qcew_sector = to_numeric(r.naics_code)

\* The detailed table without its unmapped rows.
MappedOnly == [qcew_all EXCEPT !.rows = SelectSeq(qcew_all.rows, IsMapped)]

\* C23: every (qcew_sector, io_sector) pair of the returned bridge is an
\* entry of the cleaned crosswalk; the call returns what it returns on the
\* detailed table without its unmapped rows, so that these rows contribute
\* to no bridge row and to no aggregate value; and the call raises only for
\* a missing column or an unknown weight_on column.
C23_UnmappedRowsContributeNothing ==
    /\ bpc = "done" =>
           /\ LET x == clean_crosswalk(crosswalk) IN
              \A i \in 1..Len(cw.bridge_df) : \E j \in 1..Len(x) :
                  /\ x[j].qcew_sector = cw.bridge_df[i].qcew_sector
                  /\ x[j].io_sector = cw.bridge_df[i].io_sector
           /\ cw = build_crosswalk(MappedOnly, qcew_409, crosswalk, weight_on)
    /\ bpc = "error" =>
           (read_error(qcew_all, qcew_409, crosswalk) # NoError
              \/ weight_on_error(weight_on) # NoError)

\* The call returned a bridge for a detailed table that holds a mapped row
\* and an unmapped row with a value that is not 0.
C23_Witness ==
    /\ bpc = "done"
    /\ cw.bridge_df # <<>>
    /\ \E i \in 1..Len(qcew_all.rows) :
        /\ ~IsMapped(qcew_all.rows[i])
        /\ qcew_all.rows[i].tap_wages_est_3 \in {Num(300), Num(-100)}

-----------------------------------------------------------------------------
(* Claims about align_io_to_bea_402 *)

Codes == load_402_sector_codes(codes_file)

\* The input rows as the aligner reads them: io_sector as a stripped string.
InputRows == [i \in 1..Len(io_agg_in.rows) |->
                 [io_agg_in.rows[i] EXCEPT !.io_sector = strip(astype_str(@))]]

pair(r) == <<r.area_fips, r.year>>

triple(r) == <<r.area_fips, r.year, r.io_sector>>

OutRows == aligned_out.rows

\* C4: in default mode every io_sector of the output is a code of the
\* universe, so the output holds at most as many distinct codes as the
\* universe has.
C4_DefaultOutputInUniverse ==
    (apc \in {"aligned", "realigned"} /\ ~keep_all_codes) =>
        /\ \A i \in 1..Len(OutRows) : OutRows[i].io_sector \in Range(Codes)
        /\ Cardinality({OutRows[i].io_sector : i \in 1..Len(OutRows)}) <= Len(Codes)

\* An out-of-universe row was passed in default mode and rows were returned.
C4_Witness ==
    /\ apc = "aligned" /\ ~keep_all_codes
    /\ \E i \in 1..Len(InputRows) : InputRows[i].io_sector \notin Range(Codes)
    /\ OutRows # <<>>

\* C5: in the output (either mode) the rows of one (area_fips, year) group
\* appear in code-list order, and the groups appear by area_fips, then year.
C5_OutputInCodeListOrder ==
    apc \in {"aligned", "realigned"} =>
        \A i, j \in 1..Len(OutRows) :
            i < j =>
                LET a == OutRows[i]
                    b == OutRows[j]
                IN  /\ ~LexLess(StrOrd(b.area_fips), StrOrd(a.area_fips))
                    /\ a.area_fips = b.area_fips => a.year <= b.year
                    /\ pair(a) = pair(b) =>
                           CodePos(a.io_sector, Codes) <= CodePos(b.io_sector, Codes)

\* The code list puts B before A, the input holds A before B in one group,
\* and the output holds B before A.
C5_Witness ==
    /\ apc = "aligned"
    /\ CodePos(CodeB, Codes) < CodePos(CodeA, Codes)
    /\ \E i, j \in 1..Len(InputRows) :
        /\ i < j /\ pair(InputRows[i]) = pair(InputRows[j])
        /\ InputRows[i].io_sector = CodeA /\ InputRows[j].io_sector = CodeB
    /\ \E i, j \in 1..Len(OutRows) :
        /\ i < j /\ pair(OutRows[i]) = pair(OutRows[j])
        /\ OutRows[i].io_sector = CodeB /\ OutRows[j].io_sector = CodeA

\* The input rows whose code is in the universe, in input order.
KeptRows == SelectSeq(InputRows, LAMBDA r : r.io_sector \in Range(Codes))

\* Row a comes strictly before row b in the order of the claim: area_fips
\* (if the table has it), then year (if it has it), then code position.
ComesBefore(a, b) ==
    LET by_area == "area_fips" \in io_agg_in.cols /\ a.area_fips # b.area_fips
        by_year == "year" \in io_agg_in.cols /\ a.year # b.year
    IN  IF by_area THEN LexLess(StrOrd(a.area_fips), StrOrd(b.area_fips))
        ELSE IF by_year THEN a.year < b.year
        ELSE CodePos(a.io_sector, Codes) < CodePos(b.io_sector, Codes)

RowOrders(n) == {p \in [1..n -> 1..n] : \A i, j \in 1..n : i # j => p[i] # p[j]}

C6_OneRowPerInputPairAndCode ==
    (apc \in {"aligned", "realigned"} /\ keep_all_codes) =>
        \A i \in 1..Len(InputRows) : \A c \in Range(Codes) :
            Cardinality({j \in 1..Len(OutRows) :
                            /\ pair(OutRows[j]) = pair(InputRows[i])
                            /\ OutRows[j].io_sector = c}) = 1

\* C7: with keep_all_codes, every output row of an (area_fips, year, code)
\* combination that the input does not hold has its numeric fields 0 and
\* its other fields missing.
C7_SynthesizedRowsZeroFilled ==
    (apc \in {"aligned", "realigned"} /\ keep_all_codes) =>
        \A j \in 1..Len(OutRows) :
            (\A i \in 1..Len(InputRows) : triple(InputRows[i]) # triple(OutRows[j])) =>
                /\ OutRows[j].tap_estabs_count = Num(0)
                /\ OutRows[j].tap_wages_est_3 = Num(0)
                /\ OutRows[j].tap_emplvl_est_3 = Num(0)
                /\ OutRows[j].io_label = NA

\* C8: aligning the output again, with the same code file and flag, returns
\* the same rows with the same values in the same order.
C8_AlignIdempotent ==
    apc = "realigned" =>
        /\ realigned_out.error = NoError
        /\ realigned_out.rows = aligned_out.rows

\* A second alignment was made of a table that the first one had changed.
C8_Witness ==
    /\ apc = "realigned"
    /\ aligned_out.rows # <<>>
    /\ aligned_out.rows # io_agg_in.rows

-----------------------------------------------------------------------------
(* Claims about impute_missing_sectors *)

TableExists == ipc \in {"imputing", "done", "error"}

\* C9: every target value of the main table that was non-missing before the
\* call has the same value in the table being imputed and returned, and
\* every cell of the table that differs from its value after gap insertion
\* is a target cell that was missing.
C9_NonMissingValuesUnchanged ==
    TableExists =>
        /\ Len(df2_imputed) = Len(df2)
        /\ \A i \in 1..Len(df_main) : \A c \in Range(targets) :
               notna(df_main[i][c]) => df2_imputed[i][c] = df_main[i][c]
        /\ \A i \in 1..Len(df2) : \A c \in DOMAIN df2[i] :
               df2_imputed[i][c] # df2[i][c] => (c \in Range(targets) /\ isna(df2[i][c]))

\* The call returned, and a main-table row with a negative target value had
\* another target filled.
C9_Witness ==
    /\ ipc = "done"
    /\ \E i \in 1..Len(df_main) : \E c, c2 \in Range(targets) :
        /\ notna(df_main[i][c]) /\ ~Leq(Num(0), df_main[i][c])
        /\ isna(df_main[i][c2]) /\ notna(df2_imputed[i][c2])

\* The (year, area_fips, io_sector) combination of a row, io_sector stripped.
Combination(r) == <<r.year, r.area_fips, strip(r.io_sector)>>

MainCombinations == {Combination(df_main[i]) : i \in 1..Len(df_main)}

\* The combinations that must exist: every (year, area_fips) pair of the
\* main table with every designated sector code.
DesignatedCombinations ==
    {<<df_main[i].year, df_main[i].area_fips, strip(missing_sectors[m].io_sector)>> :
        i \in 1..Len(df_main), m \in 1..Len(missing_sectors)}

InsertedIndexes == (Len(df_main) + 1)..Len(df2)

\* C13: the table holds a row for every (year, area_fips) pair of the main
\* table and every designated sector code; the rows of the main table are
\* kept, every row inserted after them is of a designated combination that
\* the main table does not hold, and enters imputation with every target
\* missing.
C13_GapInsertion ==
    TableExists =>
        /\ Len(df2) >= Len(df_main) /\ Len(df2_imputed) = Len(df2)
        /\ \A i \in 1..Len(df_main) : Combination(df2[i]) = Combination(df_main[i])
        /\ \A j \in InsertedIndexes :
               /\ Combination(df2[j]) \in DesignatedCombinations \ MainCombinations
               /\ \A c \in Range(targets) : isna(df2[j][c])
        /\ \A k \in DesignatedCombinations :
               \E j \in 1..Len(df2_imputed) : Combination(df2_imputed[j]) = k

\* The call returned a table with an inserted row, and one designated
\* combination was already in the main table.
C13_Witness ==
    /\ ipc = "done"
    /\ InsertedIndexes # {}
    /\ DesignatedCombinations \cap MainCombinations # {}

\* C14: the rows of the table returned have exactly the columns of the main
\* table: no prefix column of a configured length, no sector key and no
\* area key is left, whatever lengths are configured.
C14_NoTransientColumnReturned ==
    ipc = "done" =>
        \A i \in 1..Len(df2_imputed) : DOMAIN df2_imputed[i] = io_agg_cols

\* A non-empty table was returned under configured lengths other than the
\* default.
C14_Witness ==
    /\ ipc = "done"
    /\ df2_imputed # <<>>
    /\ sector_levels = <<2, 4>>

\* The rows of the table after gap insertion whose sector key shares the
\* first L characters of s.
SnapshotPool(s, L) == {i \in 1..Len(df2) : prefix(sec_of(df2[i]), L) = prefix(s, L)}

\* On the table after gap insertion, some prefix length gives s a pool of at
\* least k_neighbors + 1 rows with a non-missing value of every target.
HasQualifyingPool(s) ==
    \E L \in {3, 4, 5, 6} :
        /\ Cardinality(SnapshotPool(s, L)) >= k_neighbors + 1
        /\ \A c \in Range(targets) : \E i \in SnapshotPool(s, L) : notna(df2[i][c])

SectorRows(s) == {i \in 1..Len(df2) : sec_of(df2[i]) = s}

SectorKeys == {sec_of(df2[i]) : i \in 1..Len(df2)}

\* C15: in the table returned, a sector without a qualifying pool has every
\* target cell that was missing still missing, and a sector with a
\* qualifying pool has no missing target cell; the call raises only on a pool
\* that holds a target value whose log1p is not a finite number, never for
\* want of a pool.
C15_SectorsFilledOrLeftMissing ==
    /\ ipc = "done" =>
           \A s \in SectorKeys :
               IF HasQualifyingPool(s)
               THEN \A i \in SectorRows(s) : \A c \in Range(targets) :
                        notna(df2_imputed[i][c])
               ELSE \A i \in SectorRows(s) : \A c \in Range(targets) :
                        isna(df2[i][c]) => isna(df2_imputed[i][c])
    /\ ipc = "error" =>
           \E i \in 1..Len(df2) : \E c \in Range(targets) :
               notna(df2[i][c]) /\ ~log1p_finite(df2[i][c])

\* The table returned holds a sector that was filled and a sector whose
\* missing cells were left missing.
C15_Witness ==
    /\ ipc = "done"
    /\ \E s, u \in SectorKeys :
        /\ HasQualifyingPool(s)
        /\ \E i \in SectorRows(s) : \E c \in Range(targets) : isna(df2[i][c])
        /\ ~HasQualifyingPool(u)
        /\ \E i \in SectorRows(u) : \E c \in Range(targets) : isna(df2_imputed[i][c])

\* C10: every target value written into a cell that was missing after gap
\* insertion is greater than or equal to 0.
C10_FilledValuesNonNegative ==
    TableExists =>
        \A i \in 1..Len(df2) : \A c \in Range(targets) :
            (isna(df2[i][c]) /\ notna(df2_imputed[i][c])) => Leq(Num(0), df2_imputed[i][c])

\* The call returned, a missing cell was filled, and a donor of its column
\* in the table was negative: the fill was 0 by the clamp.
C10_Witness ==
    /\ ipc = "done"
    /\ \E i, j \in 1..Len(df2) : \E c \in Range(targets) :
        /\ isna(df2[i][c]) /\ df2_imputed[i][c] = Num(0)
        /\ log1p_finite(df2[j][c]) /\ ~Leq(Num(0), df2[j][c])

\* The table after gap insertion with its feature columns: the table the
\* loop of line 121 starts from.
Snapshot == [i \in 1..Len(df2) |-> with_features(df2[i], sector_levels)]

\* C18: when the loop comes to a sector that has a missing target cell, the
\* pool chosen for it on the table being imputed is the pool chosen on the
\* table as it stood after gap insertion, and every target cell of the pool
\* still has the value it had then: no value filled for another sector is
\* part of the pool.
C18_PoolsComputedBeforeAnyFill ==
    (ipc = "imputing" /\ sec_todo # <<>>) =>
        LET s    == Head(sec_todo)
            pool == get_pool(df2_imputed, s, k_neighbors)
        IN  (\E i \in group_mask(df2_imputed, s) : \E c \in Range(targets) :
                 isna(df2_imputed[i][c]))
                => /\ pool = get_pool(Snapshot, s, k_neighbors)
                   /\ \A i \in pool.pm : \A c \in Range(targets) :
                          df2_imputed[i][c] = Snapshot[i][c]

\* The sector keys a and b have the same first L characters (a key shorter
\* than L is compared whole).
SharesFirst(a, b, L) ==
    \A k \in 1..L :
        /\ (k <= Len(a)) <=> (k <= Len(b))
        /\ k <= Len(a) => a[k] = b[k]

\* The rows of the table being imputed whose key shares the first L
\* characters of s.
SharingRows(s, L) ==
    {i \in 1..Len(df2_imputed) : SharesFirst(df2_imputed[i]["_sec"], s, L)}

\* The prefix lengths whose pool has at least k_neighbors + 1 rows and a
\* non-missing value of every target.
QualifyingLengths(s) ==
    {L \in {3, 4, 5, 6} :
        /\ Cardinality(SharingRows(s, L)) >= k_neighbors + 1
        /\ \A c \in Range(targets) : \E i \in SharingRows(s, L) :
               notna(df2_imputed[i][c])}

\* The loop has come to a sector with a missing target cell.
AtSectorToFill ==
    /\ ipc = "imputing" /\ sec_todo # <<>>
    /\ \E i \in 1..Len(df2_imputed) : \E c \in Range(targets) :
           df2_imputed[i]["_sec"] = Head(sec_todo) /\ isna(df2_imputed[i][c])

\* C19: for a sector with a missing target cell, get_pool finds no pool when
\* no prefix length qualifies, and otherwise returns the rows sharing the
\* sector's first L characters for the largest qualifying L.
C19_PoolIsFinestQualifying ==
    AtSectorToFill =>
        LET s    == Head(sec_todo)
            pool == get_pool(df2_imputed, s, k_neighbors)
            Q    == QualifyingLengths(s)
        IN  IF Q = {} THEN ~pool.found
            ELSE LET L == CHOOSE m \in Q : \A n \in Q : n <= m
                 IN  pool.found /\ pool.level = L /\ pool.pm = SharingRows(s, L)

\* A sector to fill whose pools of lengths 6 and 5 fail while the pools of
\* lengths 4 and 3 qualify: the pool is the one of length 4.
C19_Witness ==
    /\ AtSectorToFill
    /\ QualifyingLengths(Head(sec_todo)) = {3, 4}
    /\ get_pool(df2_imputed, Head(sec_todo), k_neighbors).level = 4

\* C26: a step of the loop of line 121 changes only target cells that were
\* missing in rows of the sector it processes; every cell of a row of
\* another sector keeps its value.
C26_SectorWritesOwnMissingCells ==
    [][(ipc = "imputing" /\ sec_todo # <<>> /\ sec_todo' = Tail(sec_todo)) =>
          \A i \in 1..Len(df2_imputed) : \A c \in DOMAIN df2_imputed[i] :
              df2_imputed'[i][c] # df2_imputed[i][c] =>
                  /\ df2_imputed[i]["_sec"] = Head(sec_todo)
                  /\ c \in Range(targets)
                  /\ isna(df2_imputed[i][c])]_vars

\* A sector has been filled while the next sector of the loop still has the
\* missing cell it had after gap insertion.
C26_Witness ==
    /\ ipc = "imputing" /\ sec_todo # <<>>
    /\ \E i, j \in 1..Len(df2_imputed) : \E c \in Range(targets) :
        /\ df2_imputed[i]["_sec"] # Head(sec_todo)
        /\ isna(Snapshot[i][c]) /\ notna(df2_imputed[i][c])
        /\ df2_imputed[j]["_sec"] = Head(sec_todo)
        /\ isna(df2_imputed[j][c])

\* C27: a call of align_io_to_bea_402 or of impute_missing_sectors leaves
\* the tables the caller supplied as they were: the first aligner call its
\* io_agg_df, the second the table the first returned, the imputer its main
\* table and its table of designated sectors.
C27_CallerTablesUnchanged ==
    [][/\ io_agg_in' = io_agg_in
       /\ (apc = "aligned" => aligned_out' = aligned_out)
       /\ df_main' = df_main
       /\ missing_sectors' = missing_sectors]_vars

\* Both calls are over, each was given an io_sector it had to strip, the
\* aligner kept the row and the imputer inserted a row.
C27_Witness ==
    /\ apc = "realigned" /\ ipc = "done"
    /\ \E i \in 1..Len(io_agg_in.rows) :
           /\ strip(io_agg_in.rows[i].io_sector) # io_agg_in.rows[i].io_sector
           /\ \E j \in 1..Len(aligned_out.rows) :
                  aligned_out.rows[j].io_sector = strip(io_agg_in.rows[i].io_sector)
    /\ \E i \in 1..Len(df_main) : strip(df_main[i].io_sector) # df_main[i].io_sector
    /\ Len(df2_imputed) > Len(df_main)

\* The target cells of the table that hold a value.
non_missing_cells(rows) ==
    {<<i, c>> \in (1..Len(rows)) \X Range(targets) : notna(rows[i][c])}

\* In the run so far a target cell is non-missing exactly when it was
\* non-missing after gap insertion or its sector has been processed and has,
\* on the table as it stood after gap insertion, a qualifying pool.
FilledWhereSnapshotQualifies ==
    \A i \in 1..Len(df2) : \A c \in Range(targets) :
        notna(df2_imputed[i][c]) <=>
            \/ notna(df2[i][c])
            \/ /\ sec_of(df2[i]) \notin Range(sec_todo)
               /\ HasQualifyingPool(sec_of(df2[i]))

\* C28: a call that processes the sector keys in any order ends as the call
\* that processes them in order of first appearance: with the same target
\* cells non-missing, which are those that were non-missing after gap
\* insertion and those of the sectors that had a qualifying pool then.
C28_SameCellsInEveryOrder ==
    (ipc \in {"done", "error"}) =>
        LET o == loop_outcome(Snapshot, unique_secs(Snapshot), k_neighbors)
        IN  /\ o.raised <=> (ipc = "error")
            /\ ipc = "done" =>
                   /\ non_missing_cells(df2_imputed) = o.cells
                   /\ FilledWhereSnapshotQualifies

-----------------------------------------------------------------------------
(* Claims about load_402_sector_codes *)

IsBlankLine(l) == \A k \in 1..Len(l) : l[k] = " "

\* The first character of the line that is not a blank is '#'.
IsCommentLine(l) ==
    \E k \in 1..Len(l) : l[k] = "#" /\ \A m \in 1..(k - 1) : l[m] = " "

\* The characters of the line that are not blanks, in order.
NonBlanks(l) == SelectSeq(l, LAMBDA ch : ch # " ")

\* The lines of the file that carry a code.
CodeLineIndexes ==
    {k \in 1..Len(sector_file) :
        ~IsBlankLine(sector_file[k]) /\ ~IsCommentLine(sector_file[k])}

\* The line on which code c occurs first.
FirstLineOf(c) ==
    CHOOSE k \in CodeLineIndexes :
        /\ NonBlanks(sector_file[k]) = c
        /\ \A m \in CodeLineIndexes : NonBlanks(sector_file[m]) = c => k <= m

\* C11: the list returned holds exactly the codes of the lines that are
\* neither blank nor comments, with their whitespace removed, each once, in
\* the order of their first lines; no code of it is empty; and the call
\* raises exactly when the file has no such line.
C11_LoaderReturnsFirstOccurrences ==
    lpc \in {"loaded", "error"} =>
        /\ Range(loaded) = {NonBlanks(sector_file[k]) : k \in CodeLineIndexes}
        /\ \A i, j \in 1..Len(loaded) :
               i < j => (/\ loaded[i] # loaded[j]
                         /\ FirstLineOf(loaded[i]) < FirstLineOf(loaded[j]))
        /\ \A i \in 1..Len(loaded) : loaded[i] # <<>>
        /\ (lpc = "error") = (CodeLineIndexes = {})

\* A file with a comment line and a code that occurs twice was loaded into
\* a list of two or more codes.
C11_Witness ==
    /\ lpc = "loaded"
    /\ \E k \in 1..Len(sector_file) : IsCommentLine(sector_file[k])
    /\ \E k, m \in CodeLineIndexes :
           k < m /\ NonBlanks(sector_file[k]) = NonBlanks(sector_file[m])
    /\ Len(loaded) >= 2

-----------------------------------------------------------------------------
(* Claims about the build script *)

\* C25: the table the second alignment of the build script returns has, for
\* every (area_fips, year) pair it holds, a row for every code of the
\* universe.
C25_FinalTableDensified ==
    apc = "final" =>
        \A i \in 1..Len(realigned_out.rows) : \A c \in Range(Codes) :
            \E j \in 1..Len(realigned_out.rows) :
                /\ pair(realigned_out.rows[j]) = pair(realigned_out.rows[i])
                /\ realigned_out.rows[j].io_sector = c

-----------------------------------------------------------------------------
(* Claims about fetch *)

\* The unpack directory of the dataset version a call of fetch resolved.
UnpackDirOf(call) ==
    LET spec == get_spec(call.name, call.version).spec
    IN  dataset_cache_dir(call.name, spec.version) \o <<spec.unpack_dir>>

SameArguments(a, b) ==
    /\ a.name = b.name /\ a.version = b.version
    /\ a.files = b.files /\ a.unpack = b.unpack

KeyOfCall(call) == <<call.name, get_spec(call.name, call.version).spec.version>>

C30_LoaderRoundTrips ==
    /\ lpc \in {"loaded", "reloaded"} =>
           \A i \in 1..Len(loaded) :
               /\ loaded[i] # <<>>
               /\ \A k \in 1..Len(loaded[i]) : ~IsSpace(loaded[i][k]) /\ loaded[i][k] # "\n"
               /\ Head(loaded[i]) # "#"
    /\ lpc = "reloaded" => reloaded = loaded

\* A list of two codes was reloaded from its file; it came from a file with
\* a comment after a blank, whitespace inside a code and a '#' inside a code.
C30_Witness ==
    /\ lpc = "reloaded" /\ Len(loaded) >= 2
    /\ \E i \in 1..Len(sector_file) : IsCommentLine(sector_file[i]) /\ Head(sector_file[i]) = " "
    /\ \E i \in 1..Len(sector_file) :
           \E k \in 2..(Len(sector_file[i]) - 1) :
               /\ sector_file[i][k] = " "
               /\ \E a \in 1..(k - 1) : sector_file[i][a] # " "
               /\ \E b \in (k + 1)..Len(sector_file[i]) : sector_file[i][b] # " "
    /\ \E i \in 1..Len(loaded) : \E k \in 2..Len(loaded[i]) : loaded[i][k] = "#"

=============================================================================
